---------------------------- MODULE Spec2Model ----------------------------
(***************************************************************************)
(* Message routing and session synchronisation of the collaborative        *)
(* drawing server (example/server.php): SocketCommand, SocketRouter,       *)
(* ServerController and the Server listener, on top of the client registry *)
(* of SocketServer.                                                        *)
(*                                                                         *)
(* PHP strings are modelled as sequences of one-character strings, so that *)
(* ucwords, str_replace, strpos/substr and sprintf are computed and not    *)
(* assumed.  PHP arrays are functions (lists are sequences); the empty     *)
(* array is << >>.                                                         *)
(***************************************************************************)
EXTENDS Integers, Sequences, FiniteSets, TLC

(***************************************************************************)
(* Bounds of the model.                                                    *)
(***************************************************************************)
\* Spec: the registry hands out the ids 1..MaxClients, and stroke-line
\* frames arrive only while the log is shorter than MaxLines
MaxClients == 2
MaxLines == 2
\* DrawSpec: the same two bounds for clients that only draw
DrawClients == 2
DrawLines == 2
\* PaletteSpec: the ids 1..PaletteClients, for clients that only say hello
PaletteClients == 6
\* ScenarioSpec: the length of the log while the three clients of the
\* end-to-end scenario say hello, draw and restore
ScenarioLines == 1
\* RouterSpec: the ids 1..RouterClients and the length of the log, for
\* clients that also send the frames the router refuses
RouterClients == 2
RouterLines == 1
\* BroadcastSpec: the ids 1..BroadcastClients and the length of the log,
\* for clients whose connections can stop taking writes
BroadcastClients == 3
BroadcastLines == 1
\* ResolverSpec: the length of the tokens the two name resolvers are given
MaxTokenLen == 4
\* AgentSpec: the number of frames the browser side hands to its WebSocket
MaxAgentSends == 4
\* DispatchSpec: the number of lines one browser side is made to draw
DispatchLines == 2
\* DrawSessionSpec: the ids 1..DrawSessionClients, the length of the log,
\* and the number of unhandled frames of a browser side from which on the
\* server is given no further event
DrawSessionClients == 2
DrawSessionLines == 2
DrawSessionInbox == 2
\* HelloSessionSpec: the ids and the unhandled frames, as above
HelloSessionClients == 3
HelloSessionInbox == 2
\* NameSessionSpec: the ids and the unhandled frames, as above
NameSessionClients == 2
NameSessionInbox == 3
\* TwinSpec and LoopSpec: the length of the action tokens given to the
\* resolvers of both sides
MaxUnits == 3
\* AuthorSpec: the ids 1..AuthorClients and the length of the log, for
\* clients that sign their strokes
AuthorClients == 2
AuthorLines == 3
\* RepeatSpec: the length of the log, for clients that say hello again
\* after they have drawn
RepeatLines == 1
\* RestoreSessionSpec: the ids 1..RestoreSessionClients, the length of the
\* log and the frames a browser side has not handled yet, for browsers that
\* draw and ask for the restore
RestoreSessionClients == 2
RestoreSessionLines == 2
RestoreSessionInbox == 2
\* OrderSessionSpec: the ids 1..OrderSessionClients and the frames a browser
\* side has not handled yet, for clients that say hello and name themselves
\* in any order
OrderSessionClients == 2
OrderSessionInbox == 3
\* ProtocolSessionSpec: the ids 1..ProtocolSessionClients, the length of the
\* log and the frames a browser side has not handled yet, for browsers that
\* send every envelope of the protocol
ProtocolSessionClients == 2
ProtocolSessionLines == 1
ProtocolSessionInbox == 2
\* TokenSpec: the ids 1..TokenClients, for clients that send controller and
\* action tokens of their own making
TokenClients == 2
\* InstanceSpec: the ids 1..InstanceClients and the length of each log, for
\* clients that name the controller in two spellings
InstanceClients == 2
InstanceLines == 2

(***************************************************************************)
(* Values                                                                  *)
(***************************************************************************)
\* PHP null.  Every string of the model is a sequence of one-character
\* strings, so this value is none of them.
Null == <<"null">>

\* array(): the empty PHP array, as a list and as a map
EmptyArray == << >>

LowerCase ==
  <<"a","b","c","d","e","f","g","h","i","j","k","l","m",
    "n","o","p","q","r","s","t","u","v","w","x","y","z">>

UpperCase ==
  <<"A","B","C","D","E","F","G","H","I","J","K","L","M",
    "N","O","P","Q","R","S","T","U","V","W","X","Y","Z">>

HexDigits ==
  <<"0","1","2","3","4","5","6","7","8","9","A","B","C","D","E","F">>

\* the characters ucwords treats as word delimiters that the model's
\* inputs contain (the space)
WordDelimiters == {" "}

\* the upper-case letter of each lower-case letter
UpperOf ==
  [c \in {LowerCase[i] : i \in 1..26} |->
     UpperCase[CHOOSE i \in 1..26 : LowerCase[i] = c]]

\* the lower-case letter of each upper-case letter
LowerOf ==
  [c \in {UpperCase[i] : i \in 1..26} |->
     LowerCase[CHOOSE i \in 1..26 : UpperCase[i] = c]]

\* strtoupper / toUpperCase on one character
ToUpperChar(c) == IF c \in DOMAIN UpperOf THEN UpperOf[c] ELSE c

\* strtolower on one character
ToLowerChar(c) == IF c \in DOMAIN LowerOf THEN LowerOf[c] ELSE c

\* strtoupper
StrToUpper(s) == [i \in 1..Len(s) |-> ToUpperChar(s[i])]

\* strtolower: PHP compares class and method names without regard to case
StrToLower(s) == [i \in 1..Len(s) |-> ToLowerChar(s[i])]

\* ucwords($s): upper-cases the first character of the string and every
\* character that follows a delimiter; nothing is lower-cased or trimmed
ucwords(s) ==
  [i \in 1..Len(s) |->
     IF i = 1 \/ s[i-1] \in WordDelimiters THEN ToUpperChar(s[i]) ELSE s[i]]

\* str_replace($from, $to, $s) for a one-character $from
StrReplaceChar(from, to, s) ==
  [i \in 1..Len(s) |-> IF s[i] = from THEN to ELSE s[i]]

\* str_replace($ch, '', $s): $s without its occurrences of $ch
StrRemoveChar(ch, s) == SelectSeq(s, LAMBDA c : c # ch)

\* strpos($s, $ch): the 0-based position of the first $ch, or -1 for false
strpos(s, ch) ==
  IF \E i \in 1..Len(s) : s[i] = ch
    THEN (CHOOSE i \in 1..Len(s) : s[i] = ch /\ \A j \in 1..(i-1) : s[j] # ch) - 1
    ELSE -1

\* substr($s, $start, $length) with 0-based $start >= 0; past the end it is ''
substr3(s, start, length) ==
  SubSeq(s, start + 1, IF start + length > Len(s) THEN Len(s) ELSE start + length)

\* substr($s, $start) with 0-based $start >= 0
substr2(s, start) == SubSeq(s, start + 1, Len(s))

\* empty($v) for a string or null: '' and '0' are empty, so is null
PhpEmpty(v) == v = Null \/ v = << >> \/ v = <<"0">>

\* sprintf("%02X", $n) for 0 <= $n <= 255
Hex2(n) == <<HexDigits[(n \div 16) + 1], HexDigits[(n % 16) + 1]>>

(***************************************************************************)
(* The string literals of server.php                                       *)
(***************************************************************************)
Str_Controller == <<"C","o","n","t","r","o","l","l","e","r">>
Str_Action == <<"A","c","t","i","o","n">>
Str_ServerController == <<"S","e","r","v","e","r">> \o Str_Controller
Str_server == <<"s","e","r","v","e","r">>
Str_client == <<"c","l","i","e","n","t">>
Str_hello == <<"h","e","l","l","o">>
Str_set_name == <<"s","e","t","-","n","a","m","e">>
Str_stroke_line == <<"s","t","r","o","k","e","-","l","i","n","e">>
Str_request_restore ==
  <<"r","e","q","u","e","s","t","-","r","e","s","t","o","r","e">>
Str_welcome == <<"w","e","l","c","o","m","e">>
Str_user_connecting ==
  <<"u","s","e","r","-","c","o","n","n","e","c","t","i","n","g">>
Str_user_connected ==
  <<"u","s","e","r","-","c","o","n","n","e","c","t","e","d">>
Str_user_disconnected ==
  <<"u","s","e","r","-","d","i","s","c","o","n","n","e","c","t","e","d">>
Str_name_changed == <<"n","a","m","e","-","c","h","a","n","g","e","d">>
Str_restore == <<"r","e","s","t","o","r","e">>
Str_helloAction == Str_hello \o Str_Action
Str_setNameAction == <<"s","e","t","N","a","m","e">> \o Str_Action
Str_strokeLineAction ==
  <<"s","t","r","o","k","e","L","i","n","e">> \o Str_Action
Str_requestRestoreAction ==
  <<"r","e","q","u","e","s","t","R","e","s","t","o","r","e">> \o Str_Action

(***************************************************************************)
(* SocketCommand                                                           *)
(***************************************************************************)
\* new SocketCommand($controller, $action, $parameters)
SocketCommand(controller, action, parameters) ==
  [controller |-> controller, action |-> action, parameters |-> parameters]

\* SocketCommand::getParam($name, $default)
getParam(command, name, default) ==
  IF name \in DOMAIN command.parameters
    THEN command.parameters[name]
    ELSE default

\* SocketCommand::__toString: the document with the three fields
\* controller, action, parameters that json_encode serialises
toString(command) ==
  [controller |-> command.controller,
   action     |-> command.action,
   parameters |-> command.parameters]

(***************************************************************************)
(* State                                                                   *)
(***************************************************************************)
VARIABLES
  clients,      \* SocketServer's registry: the ids of the connected clients,
                \* in the order getClients() returns them
  nextId,       \* the id the registry gives to the next client
  state,        \* state[id]: the key/value map behind SocketClient::get/set
  controllers,  \* SocketRouter::$controllers: controller name -> instance,
                \* an instance being [drawnLines |-> ...]
  event,        \* the listener call processed last
  error,        \* the message of the exception that call raised, or "none"
  out,          \* the SocketClient::send calls that call made, in order:
                \* [to |-> id, command |-> document]
  scenario,     \* probe of the three-client end-to-end scenario
  calls,        \* the controller methods that call invoked, in order:
                \* [controller |-> class name, method |-> method name]
  failing,      \* the registered clients whose connection fails every write
  resolved,     \* a token and the names SocketRouter's resolvers make of it
  envelope,     \* a frame, the SocketCommand made of it and its encoding
  agent,        \* the browser side: CollabDraw and its SocketClient
  peers         \* peers[id]: the CollabDraw of the client with that id, as
                \* far as the messages of the server change it, and the
                \* frames on their way to it

vars ==
  <<clients, nextId, state, controllers, event, error, out, scenario, calls,
    failing, resolved, envelope, agent, peers>>

\* the variables of the server
serverVars ==
  <<clients, nextId, state, controllers, event, error, out, scenario, calls,
    failing>>

\* the variables the server's events leave alone
besideServer == <<resolved, envelope, agent, peers>>

\* the id of the first client the registry accepts
FirstId == 1

\* SocketServer::getClients() as a set
Registered == {clients[i] : i \in 1..Len(clients)}

\* SocketClient::get($key, $default) on a client's state map
ClientGet(st, id, key, default) ==
  IF key \in DOMAIN st[id] THEN st[id][key] ELSE default

\* SocketClient::set($key, $value): last write wins
ClientSet(st, id, key, value) ==
  [st EXCEPT ![id] = (key :> value) @@ st[id]]

\* SocketClient::send($command): one write of the command's encoding on
\* that client's connection
Send(to, command) == [to |-> to, command |-> toString(command)]

\* what reaches the clients of the sends of sent: a write on a failing
\* connection is lost and nothing more happens
Delivered(sent) == SelectSeq(sent, LAMBDA d : d.to \notin failing)

\* the foreach loop left at the first write that fails
SendToAll_abortsOnFailure(cl, skip, command) ==
  LET to == SelectSeq(cl, LAMBDA c : c \notin skip)
      failed == {i \in 1..Len(to) : to[i] \in failing}
      last == IF failed = {} THEN Len(to)
              ELSE CHOOSE i \in failed : \A j \in failed : i <= j
  IN  [i \in 1..last |-> Send(to[i], command)]

\* foreach ($clients as $client) $client->send($command), skipping the
\* clients of skip
SendToAll(cl, skip, command) ==
  LET to == SelectSeq(cl, LAMBDA c : c \notin skip)
  IN  [i \in 1..Len(to) |-> Send(to[i], command)]

(***************************************************************************)
(* ServerController                                                        *)
(***************************************************************************)
\* ServerController::$goodColors
goodColors ==
  << <<"#","F","F","0","0","0","0">>,
     <<"#","0","0","F","F","0","0">>,
     <<"#","0","0","0","0","F","F">>,
     <<"#","F","F","F","F","0","0">>,
     <<"#","0","0","F","F","F","F">>,
     <<"#","F","F","0","0","F","F">> >>

\* the upper limit of mt_rand(0, 100) in randomColor
RandMax == 100

\* mt_rand(0, RandMax) returns any of 0..RandMax; the values explored are
\* 0..MaxDraw and RandMax
MaxDraw == 0

DrawValues == (0..MaxDraw) \cup {RandMax}

\* what the three calls of mt_rand of one randomColor() return: three
\* draws fill the six hex digits
RandomDraws == DrawValues \X DrawValues \X DrawValues

\* no call of mt_rand is made
NoDraws == << >>

\* randomColor() for the three draws the loop makes until strlen($color) is 6
randomColor(draws) ==
  <<"#">> \o Hex2(draws[1]) \o Hex2(draws[2]) \o Hex2(draws[3])

\* a new ServerController: $drawnLines = array()
NewServerController == [drawnLines |-> EmptyArray]

\* the result of a handler: the instance and the client states it leaves,
\* the sends it made, and the exception it raised ("none" when it returned)
Outcome(inst, st, sent, err) ==
  [instance |-> inst, state |-> st, out |-> sent, error |-> err]

\* helloAction indexing the palette with the id itself
helloColor_indexedById(sender, draws) ==
  IF sender < Len(goodColors)
    THEN goodColors[sender + 1]
    ELSE randomColor(draws)

\* helloAction giving the palette entry after those of the clients that hold
\* a colour
helloColor_nextAfterColoured(sender, draws) ==
  LET coloured == {c \in Registered : "color" \in DOMAIN state[c]}
  IN  IF Cardinality(coloured) < Len(goodColors)
        THEN goodColors[Cardinality(coloured) + 1]
        ELSE randomColor(draws)

\* helloAction, lines 157-161: the colour of the sender; draws are the
\* values the calls of mt_rand return when randomColor is called
helloColor(sender, draws) ==
  IF sender < Len(goodColors)
    THEN goodColors[sender - 1 + 1]
    ELSE randomColor(draws)

\* helloAction with a welcome that lists no user
helloWith_noSnapshot(inst, st, cl, sender, color) ==
  LET st1 == ClientSet(st, sender, "color", color)
      welcome ==
        Send(sender, SocketCommand(Str_client, Str_welcome,
               [id    |-> sender,
                color |-> ClientGet(st1, sender, "color", Null),
                users |-> << >>]))
      connected ==
        SendToAll(cl, {}, SocketCommand(Str_client, Str_user_connected,
               [id |-> sender, color |-> color]))
  IN  Outcome(inst, st1, <<welcome>> \o connected, "none")

\* helloAction announcing the sender before it welcomes it
helloWith_announcesFirst(inst, st, cl, sender, color) ==
  LET st1 == ClientSet(st, sender, "color", color)
      others == SelectSeq(cl, LAMBDA c : c # sender)
      existingUsers ==
        [i \in 1..Len(others) |->
           [id    |-> others[i],
            color |-> ClientGet(st1, others[i], "color", Null),
            name  |-> ClientGet(st1, others[i], "name", Null)]]
      welcome ==
        Send(sender, SocketCommand(Str_client, Str_welcome,
               [id    |-> sender,
                color |-> ClientGet(st1, sender, "color", Null),
                users |-> existingUsers]))
      connected ==
        SendToAll(cl, {}, SocketCommand(Str_client, Str_user_connected,
               [id |-> sender, color |-> color]))
  IN  Outcome(inst, st1, connected \o <<welcome>>, "none")

\* helloAction, for the colour chosen
helloWith(inst, st, cl, sender, color) ==
  LET st1 == ClientSet(st, sender, "color", color)
      others == SelectSeq(cl, LAMBDA c : c # sender)
      existingUsers ==
        [i \in 1..Len(others) |->
           [id    |-> others[i],
            color |-> ClientGet(st1, others[i], "color", Null),
            name  |-> ClientGet(st1, others[i], "name", Null)]]
      welcome ==
        Send(sender, SocketCommand(Str_client, Str_welcome,
               [id    |-> sender,
                color |-> ClientGet(st1, sender, "color", Null),
                users |-> existingUsers]))
      connected ==
        SendToAll(cl, {}, SocketCommand(Str_client, Str_user_connected,
               [id |-> sender, color |-> color]))
  IN  Outcome(inst, st1, <<welcome>> \o connected, "none")

\* helloAction announcing the sender to the other clients only
helloAction_skipsSender(inst, st, cl, sender, command, draws) ==
  {[helloWith(inst, st, cl, sender, helloColor(sender, draws)) EXCEPT
      !.out = SelectSeq(@, LAMBDA d :
                d.to # sender \/ d.command.action # Str_user_connected)]}

\* ServerController::helloAction, with the values mt_rand returns
helloAction(inst, st, cl, sender, command, draws) ==
  {helloWith(inst, st, cl, sender, helloColor(sender, draws))}

\* setNameAction keeping the name a client already has
setNameAction_keepsFirstName(inst, st, cl, sender, command) ==
  LET param == getParam(command, "name", Null)
      name == IF param = Null THEN << >> ELSE ucwords(param)
  IN  IF PhpEmpty(name)
        THEN {Outcome(inst, st, << >>, "Empty name not allowed")}
        ELSE {Outcome(inst,
                      IF "name" \in DOMAIN st[sender]
                        THEN st
                        ELSE ClientSet(st, sender, "name", name),
                      SendToAll(cl, {}, SocketCommand(Str_client, Str_name_changed,
                                  [id |-> sender, name |-> name])),
                      "none")}

\* ServerController::setNameAction
setNameAction(inst, st, cl, sender, command) ==
  LET param == getParam(command, "name", Null)
      name == IF param = Null THEN << >> ELSE ucwords(param)
  IN  IF PhpEmpty(name)
        THEN {Outcome(inst, st, << >>, "Empty name not allowed")}
        ELSE {Outcome(inst,
                      ClientSet(st, sender, "name", name),
                      SendToAll(cl, {}, SocketCommand(Str_client, Str_name_changed,
                                  [id |-> sender, name |-> name])),
                      "none")}

\* strokeLineAction keeping only the newest line in the sender's own list
strokeLineAction_forgetsOwnLines(inst, st, cl, sender, command) ==
  LET line ==
        [color |-> ClientGet(st, sender, "color", Null),
         x1 |-> getParam(command, "x1", Null),
         y1 |-> getParam(command, "y1", Null),
         x2 |-> getParam(command, "x2", Null),
         y2 |-> getParam(command, "y2", Null)]
  IN  {Outcome([inst EXCEPT !.drawnLines = Append(@, line)],
               ClientSet(st, sender, "graphics.lines", <<line>>),
               SendToAll(cl, {}, SocketCommand(Str_client, Str_stroke_line,
                           [id |-> sender,
                            x1 |-> getParam(command, "x1", Null),
                            y1 |-> getParam(command, "y1", Null),
                            x2 |-> getParam(command, "x2", Null),
                            y2 |-> getParam(command, "y2", Null)])),
               "none")}

\* strokeLineAction putting the new line at the head of the sender's own list
strokeLineAction_ownListNewestFirst(inst, st, cl, sender, command) ==
  LET line ==
        [color |-> ClientGet(st, sender, "color", Null),
         x1 |-> getParam(command, "x1", Null),
         y1 |-> getParam(command, "y1", Null),
         x2 |-> getParam(command, "x2", Null),
         y2 |-> getParam(command, "y2", Null)]
      senderLines == ClientGet(st, sender, "graphics.lines", EmptyArray)
  IN  {Outcome([inst EXCEPT !.drawnLines = Append(@, line)],
               ClientSet(st, sender, "graphics.lines", <<line>> \o senderLines),
               SendToAll(cl, {}, SocketCommand(Str_client, Str_stroke_line,
                           [id |-> sender,
                            x1 |-> getParam(command, "x1", Null),
                            y1 |-> getParam(command, "y1", Null),
                            x2 |-> getParam(command, "x2", Null),
                            y2 |-> getParam(command, "y2", Null)])),
               "none")}

\* strokeLineAction putting the new line at the head of the log
strokeLineAction_prepends(inst, st, cl, sender, command) ==
  LET line ==
        [color |-> ClientGet(st, sender, "color", Null),
         x1 |-> getParam(command, "x1", Null),
         y1 |-> getParam(command, "y1", Null),
         x2 |-> getParam(command, "x2", Null),
         y2 |-> getParam(command, "y2", Null)]
      senderLines == ClientGet(st, sender, "graphics.lines", EmptyArray)
  IN  {Outcome([inst EXCEPT !.drawnLines = <<line>> \o @],
               ClientSet(st, sender, "graphics.lines", Append(senderLines, line)),
               SendToAll(cl, {}, SocketCommand(Str_client, Str_stroke_line,
                           [id |-> sender,
                            x1 |-> getParam(command, "x1", Null),
                            y1 |-> getParam(command, "y1", Null),
                            x2 |-> getParam(command, "x2", Null),
                            y2 |-> getParam(command, "y2", Null)])),
               "none")}

\* ServerController::strokeLineAction
strokeLineAction(inst, st, cl, sender, command) ==
  LET line ==
        [color |-> ClientGet(st, sender, "color", Null),
         x1 |-> getParam(command, "x1", Null),
         y1 |-> getParam(command, "y1", Null),
         x2 |-> getParam(command, "x2", Null),
         y2 |-> getParam(command, "y2", Null)]
      senderLines == ClientGet(st, sender, "graphics.lines", EmptyArray)
  IN  {Outcome([inst EXCEPT !.drawnLines = Append(@, line)],
               ClientSet(st, sender, "graphics.lines", Append(senderLines, line)),
               SendToAll(cl, {}, SocketCommand(Str_client, Str_stroke_line,
                           [id |-> sender,
                            x1 |-> getParam(command, "x1", Null),
                            y1 |-> getParam(command, "y1", Null),
                            x2 |-> getParam(command, "x2", Null),
                            y2 |-> getParam(command, "y2", Null)])),
               "none")}

\* requestRestoreAction replaying the sender's own lines, not the log
requestRestoreAction_ownLines(inst, st, cl, sender, command) ==
  {Outcome(inst, st,
           <<Send(sender, SocketCommand(Str_client, Str_restore,
                    [lines |-> ClientGet(st, sender, "graphics.lines",
                                         EmptyArray)]))>>,
           "none")}

\* requestRestoreAction handing out the log and emptying it
requestRestoreAction_flushesLog(inst, st, cl, sender, command) ==
  {Outcome([inst EXCEPT !.drawnLines = EmptyArray], st,
           <<Send(sender, SocketCommand(Str_client, Str_restore,
                    [lines |-> inst.drawnLines]))>>,
           "none")}

\* ServerController::requestRestoreAction
requestRestoreAction(inst, st, cl, sender, command) ==
  {Outcome(inst, st,
           <<Send(sender, SocketCommand(Str_client, Str_restore,
                    [lines |-> inst.drawnLines]))>>,
           "none")}

(***************************************************************************)
(* SocketRouter                                                            *)
(***************************************************************************)
\* getControllerName without the suffix: "server" to "Server"
getControllerName_noSuffix(requestedController) ==
  StrRemoveChar(" ", ucwords(StrReplaceChar("-", " ", requestedController)))

\* getControllerName with ucfirst in the place of ucwords
getControllerName_ucfirst(requestedController) ==
  LET spaced == StrReplaceChar("-", " ", requestedController)
  IN  StrRemoveChar(" ", [i \in 1..Len(spaced) |->
                            IF i = 1 THEN ToUpperChar(spaced[i]) ELSE spaced[i]])
        \o Str_Controller

\* SocketRouter::getControllerName: "user-manager" to "UserManagerController"
getControllerName(requestedController) ==
  StrRemoveChar(" ", ucwords(StrReplaceChar("-", " ", requestedController)))
    \o Str_Controller

\* a turn of the loop that upper-cases the character after the '-' and
\* leaves the '-' where it is
ActionNameTurn_keepsDash(actionName) ==
  LET dashPos == strpos(actionName, "-")
  IN  substr3(actionName, 0, dashPos + 1)
        \o StrToUpper(substr3(actionName, dashPos + 1, 1))
        \o substr2(actionName, dashPos + 2)

\* one turn of the do/while loop of getActionName, $dashPos not being false
ActionNameTurn(actionName) ==
  LET dashPos == strpos(actionName, "-")
  IN  substr3(actionName, 0, dashPos)
        \o StrToUpper(substr3(actionName, dashPos + 1, 1))
        \o substr2(actionName, dashPos + 2)

\* the loop of getActionName left after its first turn
ActionNameLoop_once(actionName) ==
  LET dashPos == strpos(actionName, "-")
  IN  IF dashPos = -1
        THEN actionName
        ELSE substr3(actionName, 0, dashPos)
               \o StrToUpper(substr3(actionName, dashPos + 1, 1))
               \o substr2(actionName, dashPos + 2)

\* the do/while loop of getActionName: delete the first '-', upper-case the
\* character after it, until strpos finds none
RECURSIVE ActionNameLoop(_)
ActionNameLoop(actionName) ==
  LET dashPos == strpos(actionName, "-")
  IN  IF dashPos = -1
        THEN actionName
        ELSE ActionNameLoop(substr3(actionName, 0, dashPos)
                              \o StrToUpper(substr3(actionName, dashPos + 1, 1))
                              \o substr2(actionName, dashPos + 2))

\* SocketRouter::getActionName: "add-user" to "addUserAction"
getActionName(requestedAction) == ActionNameLoop(requestedAction) \o Str_Action

\* the classes server.php declares whose name can end in "Controller"
ControllerClasses == {Str_ServerController}

\* the classes server.php declares: SocketCommand, SocketRouter,
\* ServerController and Server
DeclaredClasses ==
  ControllerClasses
    \cup { <<"S","o","c","k","e","t","C","o","m","m","a","n","d">>,
           <<"S","o","c","k","e","t","R","o","u","t","e","r">>,
           <<"S","e","r","v","e","r">> }

\* the declared classes as PHP looks them up: in lower case
ControllerClassTable == {StrToLower(c) : c \in DeclaredClasses}

\* class_exists($controllerName); PHP class names are case-insensitive
class_exists(controllerName) ==
  StrToLower(controllerName) \in ControllerClassTable

\* the public methods of ServerController
ControllerMethods ==
  {Str_helloAction, Str_setNameAction, Str_strokeLineAction,
   Str_requestRestoreAction}

\* the public methods as PHP looks them up: in lower case
ControllerMethodTable == {StrToLower(m) : m \in ControllerMethods}

\* is_callable(array($controller, $actionName)); PHP method names are
\* case-insensitive
is_callable(actionName) ==
  StrToLower(actionName) \in ControllerMethodTable

\* isset($request[$key]) for the string fields: the key is there and its
\* value is not null
Isset(request, key) == key \in DOMAIN request /\ request[key] # Null

\* the null json_decode returns, in the place of a document or of a value
NullDocument == [null |-> TRUE]

\* a decoded JSON string or number: a value that is no array
Scalar(v) == [scalar |-> v]

\* a decoded frame that is a JSON scalar and no array
ScalarDocument == Scalar(5)

\* the value is the null of json_decode
IsNull(v) == "null" \in DOMAIN v

\* is_array($request), the test behind the parameter type 'array $request':
\* null, strings and numbers are no arrays
IsArray(request) == ~IsNull(request) /\ "scalar" \notin DOMAIN request

\* isset($request['parameters']) && is_array($request['parameters']): the
\* key is there, its value is not null, and it is an array
IssetArray(request, key) ==
  /\ key \in DOMAIN request
  /\ ~IsNull(request[key])
  /\ IsArray(request[key])

\* the method a callable name designates
MethodNamed(actionName) ==
  CHOOSE m \in ControllerMethods : StrToLower(m) = StrToLower(actionName)

\* call_user_func_array(array($controller, $actionName), ...)
Invoke(actionName, inst, st, cl, sender, command, draws) ==
  LET method == MethodNamed(actionName)
  IN  CASE method = Str_helloAction ->
             helloAction(inst, st, cl, sender, command, draws)
        [] method = Str_setNameAction ->
             setNameAction(inst, st, cl, sender, command)
        [] method = Str_strokeLineAction ->
             strokeLineAction(inst, st, cl, sender, command)
        [] method = Str_requestRestoreAction ->
             requestRestoreAction(inst, st, cl, sender, command)

\* what a listener call leaves behind
Result(ctrls, st, sent, err, called) ==
  [controllers |-> ctrls, state |-> st, out |-> sent, error |-> err,
   calls |-> called]

\* route() called with a request that is no array: PHP 5 stops the script
\* with a catchable fatal error (no error handler is installed, lines 9-15),
\* PHP 7 and later throw a TypeError
RouteArgumentFatal ==
  "Catchable fatal error: Argument 3 passed to SocketRouter::route() must be an array"

RouteArgumentTypeError ==
  "TypeError: Argument 3 passed to SocketRouter::route() must be of the type array"

RouteArgumentErrors == {RouteArgumentFatal, RouteArgumentTypeError}

\* route testing the method before the class
route_checksActionFirst(ctrls, st, cl, sender, request, draws) ==
  IF ~IsArray(request)
    THEN {Result(ctrls, st, << >>, e, << >>) : e \in RouteArgumentErrors}
  ELSE IF ~Isset(request, "controller") \/ ~Isset(request, "action")
    THEN {Result(ctrls, st, << >>, "Missing controller name", << >>)}
    ELSE
      LET controllerName == getControllerName(request.controller)
          actionName == getActionName(request.action)
          ctrls1 == IF controllerName \in DOMAIN ctrls
                      THEN ctrls
                      ELSE (controllerName :> NewServerController) @@ ctrls
          parameters == IF IssetArray(request, "parameters")
                          THEN request.parameters
                          ELSE EmptyArray
          command == SocketCommand(request.controller, request.action, parameters)
      IN  IF ~is_callable(actionName)
            THEN {Result(ctrls, st, << >>,
                         "Controller method is not callable", << >>)}
            ELSE IF ~class_exists(controllerName)
              THEN {Result(ctrls, st, << >>, "Controller class not found", << >>)}
              ELSE {Result([ctrls1 EXCEPT ![controllerName] = o.instance],
                           o.state, o.out, o.error,
                           << [controller |-> controllerName,
                               method |-> MethodNamed(actionName)] >>) :
                      o \in Invoke(actionName, ctrls1[controllerName],
                                   st, cl, sender, command, draws)}

\* route making a new controller for every dispatch
route_newInstancePerDispatch(ctrls, st, cl, sender, request, draws) ==
  IF ~IsArray(request)
    THEN {Result(ctrls, st, << >>, e, << >>) : e \in RouteArgumentErrors}
  ELSE IF ~Isset(request, "controller") \/ ~Isset(request, "action")
    THEN {Result(ctrls, st, << >>, "Missing controller name", << >>)}
    ELSE
      LET controllerName == getControllerName(request.controller)
          actionName == getActionName(request.action)
          ctrls1 == (controllerName :> NewServerController) @@ ctrls
          parameters == IF IssetArray(request, "parameters")
                          THEN request.parameters
                          ELSE EmptyArray
          command == SocketCommand(request.controller, request.action, parameters)
      IN  IF ~class_exists(controllerName)
            THEN {Result(ctrls, st, << >>, "Controller class not found", << >>)}
            ELSE IF ~is_callable(actionName)
              THEN {Result(ctrls1, st, << >>,
                           "Controller method is not callable", << >>)}
              ELSE {Result([ctrls1 EXCEPT ![controllerName] = o.instance],
                           o.state, o.out, o.error,
                           << [controller |-> controllerName,
                               method |-> MethodNamed(actionName)] >>) :
                      o \in Invoke(actionName, ctrls1[controllerName],
                                   st, cl, sender, command, draws)}

\* SocketRouter::route: every result it can have
route(ctrls, st, cl, sender, request, draws) ==
  IF ~IsArray(request)
    THEN {Result(ctrls, st, << >>, e, << >>) : e \in RouteArgumentErrors}
  ELSE IF ~Isset(request, "controller") \/ ~Isset(request, "action")
    THEN {Result(ctrls, st, << >>, "Missing controller name", << >>)}
    ELSE
      LET controllerName == getControllerName(request.controller)
          actionName == getActionName(request.action)
          ctrls1 == IF controllerName \in DOMAIN ctrls
                      THEN ctrls
                      ELSE (controllerName :> NewServerController) @@ ctrls
          parameters == IF IssetArray(request, "parameters")
                          THEN request.parameters
                          ELSE EmptyArray
          command == SocketCommand(request.controller, request.action, parameters)
      IN  IF ~class_exists(controllerName)
            THEN {Result(ctrls, st, << >>, "Controller class not found", << >>)}
            ELSE IF ~is_callable(actionName)
              THEN {Result(ctrls1, st, << >>,
                           "Controller method is not callable", << >>)}
              ELSE {Result([ctrls1 EXCEPT ![controllerName] = o.instance],
                           o.state, o.out, o.error,
                           << [controller |-> controllerName,
                               method |-> MethodNamed(actionName)] >>) :
                      o \in Invoke(actionName, ctrls1[controllerName],
                                   st, cl, sender, command, draws)}

(***************************************************************************)
(* Server (the SocketListener)                                             *)
(***************************************************************************)
\* a frame json_decode cannot decode
MalformedFrame == [malformed |-> TRUE]

\* the frame '5': a JSON document that is a number
ScalarFrame == [json |-> "5"]

\* json_decode($message, true): null for a frame that is no JSON document,
\* the number for the frame that is one; frames that are JSON objects are
\* written in their decoded form
json_decode(message) ==
  IF message = MalformedFrame THEN NullDocument
  ELSE IF message = ScalarFrame THEN ScalarDocument
  ELSE message

\* onMessageRecieved with the call of route in a try/catch that swallows
\* the exception
onMessageRecieved_catches(ctrls, st, cl, sender, message, draws) ==
  LET request == json_decode(message)
  IN  IF request # NullDocument
        THEN {[r EXCEPT !.error = "none"] :
                r \in route(ctrls, st, cl, sender, request, draws)}
        ELSE {Result(ctrls, st, << >>, "none", << >>)}

\* Server::onMessageRecieved
onMessageRecieved(ctrls, st, cl, sender, message, draws) ==
  LET request == json_decode(message)
  IN  IF request # NullDocument
        THEN route(ctrls, st, cl, sender, request, draws)
        ELSE {Result(ctrls, st, << >>, "none", << >>)}

\* onClientConnected without the $newClient != $client test
onClientConnected_notifiesAll(cl, newClient) ==
  SendToAll(cl, {}, SocketCommand(Str_client, Str_user_connecting,
              [id |-> newClient]))

\* Server::onClientConnected
onClientConnected(cl, newClient) ==
  SendToAll(cl, {newClient}, SocketCommand(Str_client, Str_user_connecting,
              [id |-> newClient]))

\* onClientDisconnected that also tells the client that left
onClientDisconnected_tellsLeaver(cl, leftClient) ==
  SendToAll(cl, {leftClient}, SocketCommand(Str_client, Str_user_disconnected,
              [id |-> leftClient]))
    \o << Send(leftClient, SocketCommand(Str_client, Str_user_disconnected,
                                         [id |-> leftClient])) >>

\* onClientDisconnected without the $client != $leftClient test
onClientDisconnected_notifiesAll(cl, leftClient) ==
  SendToAll(cl, {}, SocketCommand(Str_client, Str_user_disconnected,
              [id |-> leftClient]))

\* Server::onClientDisconnected
onClientDisconnected(cl, leftClient) ==
  SendToAll(cl, {leftClient}, SocketCommand(Str_client, Str_user_disconnected,
              [id |-> leftClient]))

(***************************************************************************)
(* Inbound frames                                                          *)
(***************************************************************************)
\* a frame with all three fields
Frame(controller, action, parameters) ==
  [controller |-> controller, action |-> action, parameters |-> parameters]

\* the name parameters clients send: '', two spaces, '0' and 'a b'
NameInputs == { << >>, <<" ", " ">>, <<"0">>, <<"a", " ", "b">> }

\* the coordinates clients send
CoordInputs ==
  { [x1 |-> 0, y1 |-> 0, x2 |-> 10, y2 |-> 10],
    [x1 |-> 1, y1 |-> 2, x2 |-> 3, y2 |-> 4] }

HelloFrames == {Frame(Str_server, Str_hello, EmptyArray)}

SetNameFrames ==
  {Frame(Str_server, Str_set_name, [name |-> n]) : n \in NameInputs}
    \cup {Frame(Str_server, Str_set_name, EmptyArray)}

StrokeLineFrames ==
  {Frame(Str_server, Str_stroke_line, c) : c \in CoordInputs}

RequestRestoreFrames == {Frame(Str_server, Str_request_restore, EmptyArray)}

\* the envelopes of the wire protocol, namespace 'server'
ProtocolFrames ==
  HelloFrames \cup SetNameFrames \cup StrokeLineFrames \cup RequestRestoreFrames

\* frames the router refuses, and a frame that is not JSON
RefusedFrames ==
  { MalformedFrame,
    [controller |-> Str_server, parameters |-> EmptyArray],
    Frame(<<"x">>, Str_hello, EmptyArray),
    Frame(Str_server, <<"x">>, EmptyArray) }

Frames == ProtocolFrames \cup RefusedFrames

\* frames that are no envelope: not JSON, a JSON number, and JSON objects
\* without the action or without the controller
ProtocolErrorFrames ==
  { MalformedFrame,
    ScalarFrame,
    [controller |-> Str_server, parameters |-> EmptyArray],
    [action |-> Str_hello, parameters |-> EmptyArray] }

\* envelopes with both fields that name no handler
RoutingErrorFrames ==
  { Frame(<<"x">>, Str_hello, EmptyArray),
    Frame(Str_server, <<"x">>, EmptyArray),
    Frame(<<"x">>, <<"x">>, EmptyArray) }

\* the frames of RouterSpec: the refused ones, and envelopes the handlers
\* accept or reject
RouterFrames ==
  ProtocolErrorFrames \cup RoutingErrorFrames \cup HelloFrames
    \cup {Frame(Str_server, Str_set_name, [name |-> << >>]),
          Frame(Str_server, Str_set_name, [name |-> <<"a", " ", "b">>]),
          Frame(Str_server, Str_stroke_line,
                [x1 |-> 0, y1 |-> 0, x2 |-> 10, y2 |-> 10])}

(***************************************************************************)
(* The end-to-end scenario probe                                           *)
(***************************************************************************)
\* the message of an event that carries none
NoMessage == << >>

\* a listener call: the socket server calls the listener once per event
Event(type, client, message) ==
  [type |-> type, client |-> client, message |-> message]

\* C1 connects, says hello; C2 connects, says hello; C1 strokes
\* (0,0,10,10); C3 connects, says hello and requests the restore
ScenarioScript ==
  << Event("connect", 1, NoMessage),
     Event("message", 1, Frame(Str_server, Str_hello, EmptyArray)),
     Event("connect", 2, NoMessage),
     Event("message", 2, Frame(Str_server, Str_hello, EmptyArray)),
     Event("message", 1, Frame(Str_server, Str_stroke_line,
                                 [x1 |-> 0, y1 |-> 0, x2 |-> 10, y2 |-> 10])),
     Event("connect", 3, NoMessage),
     Event("message", 3, Frame(Str_server, Str_hello, EmptyArray)),
     Event("message", 3, Frame(Str_server, Str_request_restore, EmptyArray)) >>

ScenarioClients == {1, 2, 3}

\* the probe once the run has left the script
ScenarioOff == [step |-> -1, received |-> << >>]

\* the documents of sent that went to client c, in order
ReceivedBy(c, sent) ==
  LET mine == SelectSeq(sent, LAMBDA d : d.to = c)
  IN  [i \in 1..Len(mine) |-> mine[i].command]

\* the probe follows the run while the run follows the script, and records
\* what each of the three clients is sent
Probe(sc, ev, sent) ==
  IF sc.step >= 0 /\ sc.step < Len(ScenarioScript)
       /\ ev.type = ScenarioScript[sc.step + 1].type
       /\ ev.client = ScenarioScript[sc.step + 1].client
       /\ ev.message = ScenarioScript[sc.step + 1].message
    THEN [step |-> sc.step + 1,
          received |-> [c \in ScenarioClients |->
                          sc.received[c] \o ReceivedBy(c, sent)]]
    ELSE ScenarioOff

(***************************************************************************)
(* The name resolvers on their own                                         *)
(***************************************************************************)
\* no token is being resolved
NotResolving == [token |-> Null, actionName |-> Null, controllerName |-> Null]

\* the characters of the tokens: a lower-case letter, an upper-case letter
\* and the hyphen
TokenAlphabet == {"a", "B", "-"}

\* the tokens of the wire protocol and of the comments of lines 105 and 110
NamedTokens ==
  { Str_server, Str_hello, Str_set_name, Str_stroke_line, Str_request_restore,
    <<"u","s","e","r","-","m","a","n","a","g","e","r">>,
    <<"a","d","d","-","u","s","e","r">> }

\* the tokens the resolvers are given
Tokens ==
  NamedTokens
    \cup UNION {[1..n -> TokenAlphabet] : n \in 0..MaxTokenLen}

\* SocketRouter::getActionName is called with the token
ResolveAction ==
  /\ resolved.token # Null
  /\ resolved.actionName = Null
  /\ resolved' = [resolved EXCEPT !.actionName = getActionName(resolved.token)]
  /\ UNCHANGED <<serverVars, envelope, agent, peers>>

\* SocketRouter::getControllerName is called with the token
ResolveController ==
  /\ resolved.token # Null
  /\ resolved.controllerName = Null
  /\ resolved' =
       [resolved EXCEPT !.controllerName = getControllerName(resolved.token)]
  /\ UNCHANGED <<serverVars, envelope, agent, peers>>

(***************************************************************************)
(* JSON on the wire: json_decode($message, true) and json_encode           *)
(***************************************************************************)
\* a JSON string, and the PHP string it decodes to
Text(s) == [text |-> s]

\* a JSON object: its members in the order of the document
JsonObject(members) == [json |-> "object", members |-> members]

\* a member of a JSON object
Member(key, value) == [key |-> key, value |-> value]

\* a JSON list; its items are members without a key
JsonList(items) ==
  [json |-> "list",
   members |-> [i \in 1..Len(items) |-> Member(Null, items[i])]]

\* a PHP array: its entries in insertion order
PhpArray(entries) == [php |-> "array", entries |-> entries]

\* the keys of a PHP array: integers and strings
IntKey(n) == [int |-> n]
StrKey(s) == [str |-> s]

\* the decimal strings the model's documents use as keys
DecimalKeys == << <<"0">>, <<"1">> >>

\* the key PHP stores for a string key: a decimal string becomes the integer
ArrayKey(key) ==
  IF \E n \in 1..Len(DecimalKeys) : DecimalKeys[n] = key
    THEN IntKey((CHOOSE n \in 1..Len(DecimalKeys) : DecimalKeys[n] = key) - 1)
    ELSE StrKey(key)

\* the JSON member name json_encode writes for a key
KeyName(key) ==
  IF "int" \in DOMAIN key THEN DecimalKeys[key.int + 1] ELSE key.str

\* a JSON number, and the PHP or JavaScript number it stands for
Number(n) == [number |-> n]

\* the value is a string or a number, and no array
IsScalar(v) == "text" \in DOMAIN v \/ "number" \in DOMAIN v

\* json_decode($json, true): objects and lists both become PHP arrays
RECURSIVE JsonDecode(_)
JsonDecode(v) ==
  IF IsScalar(v) THEN v
  ELSE IF v.json = "object"
    THEN PhpArray([i \in 1..Len(v.members) |->
                     Member(ArrayKey(v.members[i].key),
                            JsonDecode(v.members[i].value))])
    ELSE PhpArray([i \in 1..Len(v.members) |->
                     Member(IntKey(i - 1), JsonDecode(v.members[i].value))])

\* the array has the keys 0, 1, ... in this order (the empty array has)
IsList(a) == \A i \in 1..Len(a.entries) : a.entries[i].key = IntKey(i - 1)

\* json_encode: an array with the keys 0..n-1 in order is written as a
\* list, every other array as an object
RECURSIVE JsonEncode(_)
JsonEncode(v) ==
  IF IsScalar(v) THEN v
  ELSE IF IsList(v)
    THEN JsonList([i \in 1..Len(v.entries) |-> JsonEncode(v.entries[i].value)])
    ELSE JsonObject([i \in 1..Len(v.entries) |->
                       Member(KeyName(v.entries[i].key),
                              JsonEncode(v.entries[i].value))])

\* isset($array[$key]) for a string key
HasKey(a, key) == \E i \in 1..Len(a.entries) : a.entries[i].key = StrKey(key)

\* $array[$key]
ValueAt(a, key) ==
  a.entries[CHOOSE i \in 1..Len(a.entries) : a.entries[i].key = StrKey(key)].value

\* lines 94-100 of route: the SocketCommand made of a decoded request
CommandOfRequest(request) ==
  SocketCommand(ValueAt(request, <<"c","o","n","t","r","o","l","l","e","r">>),
                ValueAt(request, <<"a","c","t","i","o","n">>),
                IF HasKey(request, <<"p","a","r","a","m","e","t","e","r","s">>)
                     /\ ~IsScalar(ValueAt(request,
                                 <<"p","a","r","a","m","e","t","e","r","s">>))
                  THEN ValueAt(request, <<"p","a","r","a","m","e","t","e","r","s">>)
                  ELSE PhpArray(<< >>))

\* SocketCommand::__toString with its json_encode
EncodeCommand(command) ==
  LET data == toString(command)
  IN  JsonEncode(PhpArray(
        << Member(StrKey(<<"c","o","n","t","r","o","l","l","e","r">>),
                  data.controller),
           Member(StrKey(<<"a","c","t","i","o","n">>), data.action),
           Member(StrKey(<<"p","a","r","a","m","e","t","e","r","s">>),
                  data.parameters) >>))

\* the parameters of the documents: {}, {"name":"a b"},
\* {"x1":"0","y1":"0"}, [], ["a"], {"0":"a"}, {"1":"a"}
ParameterDocuments ==
  { JsonObject(<< >>),
    JsonObject(<< Member(<<"n","a","m","e">>, Text(<<"a"," ","b">>)) >>),
    JsonObject(<< Member(<<"x","1">>, Text(<<"0">>)),
                  Member(<<"y","1">>, Text(<<"0">>)) >>),
    JsonList(<< >>),
    JsonList(<< Text(<<"a">>) >>),
    JsonObject(<< Member(<<"0">>, Text(<<"a">>)) >>),
    JsonObject(<< Member(<<"1">>, Text(<<"a">>)) >>) }

\* well-formed documents: an object with controller, action and parameters
WellFormedDocuments ==
  { JsonObject(<< Member(<<"c","o","n","t","r","o","l","l","e","r">>, Text(c)),
                  Member(<<"a","c","t","i","o","n">>, Text(a)),
                  Member(<<"p","a","r","a","m","e","t","e","r","s">>, p) >>) :
      c \in {Str_server, Str_client},
      a \in {Str_hello, Str_set_name, Str_stroke_line, Str_request_restore},
      p \in ParameterDocuments }

\* no frame is being decoded or encoded
NoEnvelope ==
  [stage |-> "none", document |-> Null, command |-> Null, encoded |-> Null]

\* lines 71-92 of route on a decoded request: the exception it throws
\* before it makes the SocketCommand, "none" when it throws none
RouteRefusal(request) ==
  IF ~HasKey(request, <<"c","o","n","t","r","o","l","l","e","r">>)
       \/ ~HasKey(request, <<"a","c","t","i","o","n">>)
    THEN "Missing controller name"
  ELSE IF ~class_exists(getControllerName(
             ValueAt(request, <<"c","o","n","t","r","o","l","l","e","r">>).text))
    THEN "Controller class not found"
  ELSE IF ~is_callable(getActionName(
             ValueAt(request, <<"a","c","t","i","o","n">>).text))
    THEN "Controller method is not callable"
    ELSE "none"

\* lines 86-88 of route on a decoded request: the instance of the
\* controller is made and kept when the class exists and has none yet
RouteInstances(ctrls, request) ==
  IF RouteRefusal(request) \in {"Missing controller name",
                                "Controller class not found"}
    THEN ctrls
    ELSE LET controllerName ==
               getControllerName(
                 ValueAt(request, <<"c","o","n","t","r","o","l","l","e","r">>).text)
         IN  IF controllerName \in DOMAIN ctrls
               THEN ctrls
               ELSE (controllerName :> NewServerController) @@ ctrls

\* the frame is decoded and route makes the controller and its
\* SocketCommand, or throws before: the stage is then "refused"
DecodeEnvelope ==
  /\ envelope.stage = "document"
  /\ LET request == JsonDecode(envelope.document)
     IN  /\ envelope' =
              IF RouteRefusal(request) = "none"
                THEN [envelope EXCEPT !.stage = "command",
                                      !.command = CommandOfRequest(request)]
                ELSE [envelope EXCEPT !.stage = "refused"]
         /\ controllers' = RouteInstances(controllers, request)
  /\ UNCHANGED <<clients, nextId, state, event, error, out, scenario, calls,
                 failing, resolved, agent, peers>>

\* the SocketCommand is written out again
EncodeEnvelope ==
  /\ envelope.stage = "command"
  /\ envelope' = [envelope EXCEPT
                    !.stage = "encoded",
                    !.encoded = EncodeCommand(envelope.command)]
  /\ UNCHANGED <<serverVars, resolved, agent, peers>>

(***************************************************************************)
(* The browser side: SocketClient and CollabDraw (JavaScript)              *)
(*                                                                         *)
(* agent.socket is the state of the WebSocket object: "none" before        *)
(* CollabDraw.init, then CONNECTING, OPEN, FAILED (the error event was     *)
(* fired, the close event is to come) and CLOSED.  A WebSocket opens at    *)
(* most once and fires nothing after its close event.                      *)
(***************************************************************************)
\* new CollabDraw(host, port), before the page calls init: no SocketClient,
\* #status not shown
NoAgent ==
  [socket |-> "none", sockets |-> 0, open |-> FALSE, status |-> "hidden",
   sent |-> << >>, thrown |-> "none"]

\* the JavaScript SocketCommand: parameters || []
JsCommand(controller, action, parameters) ==
  [controller |-> controller, action |-> action, parameters |-> parameters]

\* a SocketCommand made without parameters
NoParameters == JsonList(<< >>)

\* $.JSON.encode(data) of the data object of SocketClient.send
JsEncode(command) ==
  JsonObject(<< Member(<<"c","o","n","t","r","o","l","l","e","r">>,
                       Text(command.controller)),
                Member(<<"a","c","t","i","o","n">>, Text(command.action)),
                Member(<<"p","a","r","a","m","e","t","e","r","s">>,
                       command.parameters) >>)

\* SocketClient.send without the test of this.open
SocketClient_send_unguarded(a, command) ==
  [a EXCEPT !.sent = Append(@, JsEncode(command)), !.thrown = "none"]

\* SocketClient.send
SocketClient_send(a, command) ==
  IF ~a.open
    THEN [a EXCEPT !.thrown = "Unable to send command, socket is not open"]
    ELSE [a EXCEPT !.sent = Append(@, JsEncode(command)), !.thrown = "none"]

\* CollabDraw.showError
showError(a, message) == [a EXCEPT !.status = message]

\* SocketClient.init, called by the constructor: new WebSocket
SocketClient_init(a) ==
  [a EXCEPT !.socket = "CONNECTING", !.sockets = @ + 1, !.open = FALSE]

\* CollabDraw.init: new SocketClient and the four listeners
CollabDraw_init(a) == SocketClient_init(a)

\* CollabDraw.onSocketOpen
CollabDraw_onSocketOpen(a) ==
  SocketClient_send([a EXCEPT !.status = "hidden"],
                    JsCommand(Str_server, Str_hello, NoParameters))

\* CollabDraw.onSocketClose making a new connection
CollabDraw_onSocketClose_reconnects(a) ==
  CollabDraw_init(showError(a, "Connection lost"))

\* CollabDraw.onSocketClose
CollabDraw_onSocketClose(a) == showError(a, "Connection lost")

\* CollabDraw.onSocketError
CollabDraw_onSocketError(a) == showError(a, "Error occured")

\* SocketClient.onSocketOpen: the flag, then the onopen callbacks
SocketClient_onSocketOpen(a) ==
  CollabDraw_onSocketOpen([a EXCEPT !.open = TRUE, !.thrown = "none"])

\* SocketClient.onSocketClose: the flag, then the onclose callbacks
SocketClient_onSocketClose(a) ==
  CollabDraw_onSocketClose([a EXCEPT !.open = FALSE, !.thrown = "none"])

\* SocketClient.onSocketError: the onerror callbacks
SocketClient_onSocketError(a) ==
  CollabDraw_onSocketError([a EXCEPT !.thrown = "none"])

\* CollabDraw.setName
CollabDraw_setName(a, name) ==
  SocketClient_send(a, JsCommand(Str_server, Str_set_name,
                       JsonObject(<< Member(<<"n","a","m","e">>, Text(name)) >>)))

\* CollabDraw.strokeLine
CollabDraw_strokeLine(a, x1, y1, x2, y2) ==
  SocketClient_send(a, JsCommand(Str_server, Str_stroke_line,
                       JsonObject(<< Member(<<"x","1">>, Number(x1)),
                                     Member(<<"y","1">>, Number(y1)),
                                     Member(<<"x","2">>, Number(x2)),
                                     Member(<<"y","2">>, Number(y2)) >>)))

\* CollabDraw.initCanvas: its last statement asks for the restore
CollabDraw_initCanvas(a) ==
  SocketClient_send(a, JsCommand(Str_server, Str_request_restore, NoParameters))

\* the page calls init on its CollabDraw
PageStarts ==
  /\ agent.socket = "none"
  /\ agent' = CollabDraw_init(agent)
  /\ UNCHANGED <<serverVars, resolved, envelope, peers>>

\* the WebSocket fires its open event
SocketOpens ==
  /\ agent.socket = "CONNECTING"
  /\ agent' = [SocketClient_onSocketOpen(agent) EXCEPT !.socket = "OPEN"]
  /\ UNCHANGED <<serverVars, resolved, envelope, peers>>

\* the WebSocket fires its error event
SocketErrors ==
  /\ agent.socket \in {"CONNECTING", "OPEN"}
  /\ agent' = [SocketClient_onSocketError(agent) EXCEPT !.socket = "FAILED"]
  /\ UNCHANGED <<serverVars, resolved, envelope, peers>>

\* the WebSocket fires its close event
SocketCloses ==
  /\ agent.socket \in {"CONNECTING", "OPEN", "FAILED"}
  /\ agent' = [SocketClient_onSocketClose(agent) EXCEPT !.socket = "CLOSED"]
  /\ UNCHANGED <<serverVars, resolved, envelope, peers>>

\* the names the user of the page types
AgentNames == { <<"a">> }

\* the page calls setName, strokeLine or initCanvas
PageCalls ==
  /\ agent.socket # "none"
  /\ Len(agent.sent) < MaxAgentSends
  /\ \/ \E n \in AgentNames : agent' = CollabDraw_setName(agent, n)
     \/ \E c \in CoordInputs :
          agent' = CollabDraw_strokeLine(agent, c.x1, c.y1, c.x2, c.y2)
     \/ agent' = CollabDraw_initCanvas(agent)
  /\ UNCHANGED <<serverVars, resolved, envelope, peers>>

(***************************************************************************)
(* The browser side: the messages of the server (JavaScript)               *)
(*                                                                         *)
(* A JavaScript string is a sequence of UTF-16 code units; the units that  *)
(* are not ASCII are written "U+00E9".  The same text is a sequence of     *)
(* bytes in PHP: json_decode gives UTF-8.                                  *)
(***************************************************************************)
\* String.prototype.toUpperCase on units that are not ASCII letters: one
\* unit can become one, two or three.  e-acute has the upper-case E-acute,
\* the sharp s the two letters SS, the ligature ffi (U+FB03) the three
\* letters FFI, iota with dialytika and tonos (U+0390) capital iota and the
\* two combining marks
JsUpperTable ==
  ("U+00E9" :> <<"U+00C9">>) @@ ("U+00DF" :> <<"S", "S">>)
    @@ ("U+FB03" :> <<"F", "F", "I">>)
    @@ ("U+0390" :> <<"U+0399", "U+0308", "U+0301">>)

\* toUpperCase of a string of one unit
JsUpperOfUnit(c) ==
  IF c \in DOMAIN UpperOf THEN <<UpperOf[c]>>
  ELSE IF c \in DOMAIN JsUpperTable THEN JsUpperTable[c]
  ELSE <<c>>

\* String.prototype.toUpperCase
RECURSIVE JsToUpperCase(_)
JsToUpperCase(s) ==
  IF s = << >> THEN << >> ELSE JsUpperOfUnit(Head(s)) \o JsToUpperCase(Tail(s))

\* s.indexOf(ch): the 0-based position of the first ch, or -1
indexOf(s, ch) ==
  IF \E i \in 1..Len(s) : s[i] = ch
    THEN (CHOOSE i \in 1..Len(s) : s[i] = ch /\ \A j \in 1..(i-1) : s[j] # ch) - 1
    ELSE -1

\* s.substr(start, length) with start >= 0; past the end it is ''
JsSubstr3(s, start, length) ==
  SubSeq(s, start + 1, IF start + length > Len(s) THEN Len(s) ELSE start + length)

\* s.substr(start) with start >= 0
JsSubstr2(s, start) == SubSeq(s, start + 1, Len(s))

\* one turn of the do/while loop of onSocketMessage
JsActionNameTurn(actionName) ==
  LET dashPos == indexOf(actionName, "-")
  IN  JsSubstr3(actionName, 0, dashPos)
        \o JsToUpperCase(JsSubstr3(actionName, dashPos + 1, 1))
        \o JsSubstr2(actionName, dashPos + 2)

\* the do/while loop of onSocketMessage
RECURSIVE JsActionNameLoop(_)
JsActionNameLoop(actionName) ==
  IF indexOf(actionName, "-") = -1
    THEN actionName
    ELSE JsActionNameLoop(JsActionNameTurn(actionName))

\* the method name made without upper-casing: the '-' are deleted and
\* nothing else changes
JsActionName_keepsCase(requestedAction) ==
  SelectSeq(requestedAction, LAMBDA c : c # "-") \o Str_Action

\* the method name onSocketMessage makes of request.action
JsActionName(requestedAction) == JsActionNameLoop(requestedAction) \o Str_Action

\* the properties of a CollabDraw that are functions and whose name ends in
\* 'Action'
CollabDrawActions ==
  { <<"w","e","l","c","o","m","e">> \o Str_Action,
    <<"n","a","m","e","C","h","a","n","g","e","d">> \o Str_Action,
    <<"u","s","e","r","C","o","n","n","e","c","t","i","n","g">> \o Str_Action,
    <<"r","e","s","t","o","r","e">> \o Str_Action,
    <<"s","t","r","o","k","e","L","i","n","e">> \o Str_Action,
    <<"u","s","e","r","C","o","n","n","e","c","t","e","d">> \o Str_Action,
    <<"u","s","e","r","D","i","s","c","o","n","n","e","c","t","e","d">>
      \o Str_Action }

\* typeof(this[actionName]) == 'function'; property names are case-sensitive
IsFunction(actionName) == actionName \in CollabDrawActions

\* a || null
OrNull(v) == IF v = Null \/ v = << >> THEN Null ELSE v

\* new User(id, color, name)
User(id, color, name) == [id |-> id, color |-> color, name |-> OrNull(name)]

\* the JavaScript SocketCommand's getParam(name): the parameter, or null
JsGetParam(command, name) ==
  IF name \in DOMAIN command.parameters THEN command.parameters[name] ELSE Null

\* what a for-in loop over getParam(name) walks: the items of the list, and
\* nothing when getParam gives null
ForIn(command, name) ==
  IF name \in DOMAIN command.parameters THEN command.parameters[name] ELSE << >>

\* no message has been handled
NoDispatch == [message |-> Null, calls |-> << >>, unsupported |-> Null]

\* new CollabDraw(host, port): id null, users {}; rendered lists the calls
\* of renderStrokeLine, last the message handled last, the handlers it ran
\* and the method name it did not find, thrown what that handling threw;
\* inbox holds the frames that reached the WebSocket and wait for their
\* message event, strokes the stroke-line frames that reached it so far,
\* sinceRestore the restore that reached it last and the stroke-line frames
\* that reached it since; canvas tells whether this.canvas is a Canvas (it
\* is null until initCanvas runs)
NewCollabDraw ==
  [inbox |-> << >>, strokes |-> << >>, sinceRestore |-> << >>,
   id |-> Null, color |-> Null, canvas |-> FALSE,
   users |-> << >>, rendered |-> << >>, last |-> NoDispatch, thrown |-> "none"]

\* CollabDraw.initCanvas up to its last statement: this.canvas = new
\* Canvas(...) and its settings
MakeCanvas(p) == [p EXCEPT !.canvas = TRUE]

\* no browser side is modelled
NoPeers == << >>

\* reading or writing a property of undefined
JsTypeError == "TypeError"

\* CollabDraw.renderStrokeLine(color, x1, y1, x2, y2): the call is noted;
\* this.canvas.save() throws while this.canvas is null
renderStrokeLine(p, color, x1, y1, x2, y2) ==
  LET called == [p EXCEPT !.rendered =
                   Append(@, [color |-> color, x1 |-> x1, y1 |-> y1,
                              x2 |-> x2, y2 |-> y2])]
  IN  IF ~p.canvas
        THEN [called EXCEPT !.thrown = JsTypeError]
        ELSE called

\* the for-in loop of welcomeAction over existingUsers
RECURSIVE WelcomeLoop(_, _)
WelcomeLoop(p, existingUsers) ==
  IF existingUsers = << >>
    THEN p
    ELSE LET userInfo == Head(existingUsers)
             user == User(userInfo.id, userInfo.color, userInfo.name)
         IN  WelcomeLoop([p EXCEPT !.users = (user.id :> user) @@ @],
                         Tail(existingUsers))

\* CollabDraw.welcomeAction
CollabDraw_welcomeAction(p, command) ==
  WelcomeLoop([p EXCEPT !.id = JsGetParam(command, "id"),
                        !.color = JsGetParam(command, "color")],
              ForIn(command, "users"))

\* CollabDraw.nameChangedAction
CollabDraw_nameChangedAction(p, command) ==
  LET userId == JsGetParam(command, "id")
      name == JsGetParam(command, "name")
  IN  IF userId \notin DOMAIN p.users
        THEN [p EXCEPT !.thrown = JsTypeError]
        ELSE [p EXCEPT !.users[userId].name = name]

\* CollabDraw.userConnectingAction
CollabDraw_userConnectingAction(p, command) == p

\* the for-in loop of restoreAction over lines: what renderStrokeLine
\* throws ends it
RECURSIVE RestoreLoop(_, _)
RestoreLoop(p, lines) ==
  IF lines = << >>
    THEN p
    ELSE LET line == Head(lines)
             drawn == renderStrokeLine(p, line.color, line.x1, line.y1,
                                       line.x2, line.y2)
         IN  IF drawn.thrown # "none"
               THEN drawn
               ELSE RestoreLoop(drawn, Tail(lines))

\* CollabDraw.restoreAction
CollabDraw_restoreAction(p, command) ==
  RestoreLoop(p, ForIn(command, "lines"))

\* CollabDraw.strokeLineAction
CollabDraw_strokeLineAction(p, command) ==
  LET userId == JsGetParam(command, "id")
  IN  IF userId \notin DOMAIN p.users
        THEN [p EXCEPT !.thrown = JsTypeError]
        ELSE renderStrokeLine(p, p.users[userId].color,
                              JsGetParam(command, "x1"), JsGetParam(command, "y1"),
                              JsGetParam(command, "x2"), JsGetParam(command, "y2"))

\* CollabDraw.userConnectedAction
CollabDraw_userConnectedAction(p, command) ==
  LET userId == JsGetParam(command, "id")
      color == JsGetParam(command, "color")
      user == User(userId, color, Null)
  IN  [p EXCEPT !.users = (userId :> user) @@ @]

\* CollabDraw.userDisconnectedAction: renderUsedDisconnected reads user.id
CollabDraw_userDisconnectedAction(p, command) ==
  LET userId == JsGetParam(command, "id")
  IN  IF userId \notin DOMAIN p.users
        THEN [p EXCEPT !.thrown = JsTypeError]
        ELSE p

\* this[actionName](command)
JsInvoke(actionName, p, command) ==
  CASE actionName = <<"w","e","l","c","o","m","e">> \o Str_Action ->
         CollabDraw_welcomeAction(p, command)
    [] actionName = <<"n","a","m","e","C","h","a","n","g","e","d">> \o Str_Action ->
         CollabDraw_nameChangedAction(p, command)
    [] actionName = <<"u","s","e","r","C","o","n","n","e","c","t","i","n","g">>
                      \o Str_Action ->
         CollabDraw_userConnectingAction(p, command)
    [] actionName = <<"r","e","s","t","o","r","e">> \o Str_Action ->
         CollabDraw_restoreAction(p, command)
    [] actionName = <<"s","t","r","o","k","e","L","i","n","e">> \o Str_Action ->
         CollabDraw_strokeLineAction(p, command)
    [] actionName = <<"u","s","e","r","C","o","n","n","e","c","t","e","d">>
                      \o Str_Action ->
         CollabDraw_userConnectedAction(p, command)
    [] actionName = <<"u","s","e","r","D","i","s","c","o","n","n","e","c","t","e","d">>
                      \o Str_Action ->
         CollabDraw_userDisconnectedAction(p, command)

\* throw 'Unsupported action "' + actionName + '" called'
Unsupported(p, actionName) ==
  [p EXCEPT !.thrown = "Unsupported action called",
            !.last.unsupported = actionName]

\* onSocketMessage calling the method without looking for it: an action
\* without method is passed over
CollabDraw_onSocketMessage_lenient(p, request) ==
  LET p0 == [p EXCEPT !.thrown = "none",
                      !.last = [message |-> request, calls |-> << >>,
                                unsupported |-> Null]]
  IN  IF "action" \notin DOMAIN request
        THEN [p0 EXCEPT !.thrown = "Unable to handle message, no action given"]
        ELSE LET actionName == JsActionName(request.action)
                 command == JsCommand(request.controller, request.action,
                                      request.parameters)
             IN  IF ~IsFunction(actionName)
                   THEN p0
                   ELSE JsInvoke(actionName,
                                 [p0 EXCEPT !.last.calls =
                                    Append(@, [handler |-> actionName,
                                               command |-> command])],
                                 command)

\* CollabDraw.onSocketMessage for the document $.parseJSON makes of the
\* frame
CollabDraw_onSocketMessage(p, request) ==
  LET p0 == [p EXCEPT !.thrown = "none",
                      !.last = [message |-> request, calls |-> << >>,
                                unsupported |-> Null]]
  IN  IF "action" \notin DOMAIN request
        THEN [p0 EXCEPT !.thrown = "Unable to handle message, no action given"]
        ELSE LET actionName == JsActionName(request.action)
                 command == JsCommand(request.controller, request.action,
                                      request.parameters)
             IN  IF ~IsFunction(actionName)
                   THEN Unsupported(p0, actionName)
                   ELSE JsInvoke(actionName,
                                 [p0 EXCEPT !.last.calls =
                                    Append(@, [handler |-> actionName,
                                               command |-> command])],
                                 command)

(***************************************************************************)
(* Initial state and the events of the socket server                       *)
(***************************************************************************)
\* the server after construction: no client, no controller instance
ServerInit ==
  /\ clients = << >>
  /\ nextId = FirstId
  /\ state = << >>
  /\ controllers = << >>
  /\ event = Event("start", 0, NoMessage)
  /\ error = "none"
  /\ out = << >>
  /\ scenario = [step |-> 0, received |-> [c \in ScenarioClients |-> << >>]]
  /\ calls = << >>
  /\ failing = {}

Init ==
  /\ ServerInit
  /\ resolved = NotResolving
  /\ envelope = NoEnvelope
  /\ agent = NoAgent
  /\ peers = NoPeers

\* the script runs until a fatal error stops it
Running == error # RouteArgumentFatal

\* a connection is accepted: the registry gives it the next id and an empty
\* state, then the listener's onClientConnected runs
Accept(maxId) ==
  /\ Running
  /\ nextId <= maxId
  /\ clients' = Append(clients, nextId)
  /\ nextId' = nextId + 1
  /\ state' = (nextId :> EmptyArray) @@ state
  /\ controllers' = controllers
  /\ event' = Event("connect", nextId, NoMessage)
  /\ error' = "none"
  /\ out' = onClientConnected(clients', nextId)
  /\ calls' = << >>
  /\ failing' = failing
  /\ scenario' = Probe(scenario, event', out')

\* the server accepts a connection and no browser side is looked at
ClientConnects(maxId) == Accept(maxId) /\ UNCHANGED besideServer

\* the connection of client c is closed: the listener's onClientDisconnected
\* runs and the registry drops the client and its state
Disconnect(c) ==
  /\ Running
  /\ out' = onClientDisconnected(clients, c)
  /\ clients' = SelectSeq(clients, LAMBDA x : x # c)
  /\ state' = [x \in DOMAIN state \ {c} |-> state[x]]
  /\ UNCHANGED <<nextId, controllers>>
  /\ event' = Event("disconnect", c, NoMessage)
  /\ error' = "none"
  /\ calls' = << >>
  /\ failing' = failing \ {c}
  /\ scenario' = Probe(scenario, event', out')

\* a connection is closed
ClientDisconnects ==
  \E c \in Registered : Disconnect(c) /\ UNCHANGED besideServer

\* what mt_rand returns while a frame of the client c is handled: only the
\* helloAction of a sender whose id is count($this->goodColors) or more
\* calls randomColor (lines 157-160)
DrawsFor(c) == IF c < Len(goodColors) THEN {NoDraws} ELSE RandomDraws

\* the frame m of the connected client c arrives: onMessageRecieved runs to
\* its end or to the exception it raises
Receive(c, m, maxLines) ==
  /\ Running
  /\ m \in StrokeLineFrames =>
       \A k \in DOMAIN controllers : Len(controllers[k].drawnLines) < maxLines
  /\ \E draws \in DrawsFor(c) :
     \E r \in onMessageRecieved(controllers, state, clients, c, m, draws) :
       /\ controllers' = r.controllers
       /\ state' = r.state
       /\ out' = r.out
       /\ error' = r.error
       /\ calls' = r.calls
  /\ UNCHANGED <<clients, nextId, failing>>
  /\ event' = Event("message", c, m)
  /\ scenario' = Probe(scenario, event', out')

\* a frame of a connected client arrives
MessageArrives(frames, maxLines) ==
  \E c \in Registered, m \in frames :
    Receive(c, m, maxLines) /\ UNCHANGED besideServer

\* the server with clients that send every frame of Frames
Next ==
  \/ ClientConnects(MaxClients)
  \/ ClientDisconnects
  \/ MessageArrives(Frames, MaxLines)

Spec == Init /\ [][Next]_vars

\* the server with clients that say hello, draw and ask for the restore
DrawFrames == HelloFrames \cup StrokeLineFrames \cup RequestRestoreFrames

DrawNext ==
  \/ ClientConnects(DrawClients)
  \/ ClientDisconnects
  \/ MessageArrives(DrawFrames, DrawLines)

DrawSpec == Init /\ [][DrawNext]_vars

\* the server with clients that only say hello, enough of them to pass the
\* end of the palette
PaletteNext ==
  \/ ClientConnects(PaletteClients)
  \/ ClientDisconnects
  \/ MessageArrives(HelloFrames, 0)

PaletteSpec == Init /\ [][PaletteNext]_vars

\* the server with clients that pass the end of the palette, say hello more
\* than once and draw a line
RepeatNext ==
  \/ ClientConnects(PaletteClients)
  \/ ClientDisconnects
  \/ MessageArrives(HelloFrames
                      \cup {Frame(Str_server, Str_stroke_line,
                                  [x1 |-> 0, y1 |-> 0, x2 |-> 10, y2 |-> 10])},
                    RepeatLines)

RepeatSpec == Init /\ [][RepeatNext]_vars

\* the server with the three clients of the end-to-end scenario, sending the
\* frames of the scenario in any order
ScenarioFrames ==
  {ScenarioScript[i].message :
     i \in {j \in 1..Len(ScenarioScript) : ScenarioScript[j].type = "message"}}

ScenarioNext ==
  \/ ClientConnects(Cardinality(ScenarioClients))
  \/ ClientDisconnects
  \/ MessageArrives(ScenarioFrames, ScenarioLines)

ScenarioSpec == Init /\ [][ScenarioNext]_vars

\* the server with clients that send frames the router refuses between
\* frames it routes
RouterNext ==
  \/ ClientConnects(RouterClients)
  \/ ClientDisconnects
  \/ MessageArrives(RouterFrames, RouterLines)

RouterSpec == Init /\ [][RouterNext]_vars

\* the connection of a registered client stops taking writes, and the
\* server has not seen it close
ConnectionBreaks ==
  \E c \in Registered \ failing :
    /\ Running
    /\ failing' = failing \cup {c}
    /\ event' = Event("break", c, NoMessage)
    /\ error' = "none"
    /\ out' = << >>
    /\ calls' = << >>
    /\ scenario' = Probe(scenario, event', out')
    /\ UNCHANGED <<clients, nextId, state, controllers, besideServer>>

\* the server with clients that say hello, take a name and draw, on
\* connections that can break
BroadcastFrames ==
  HelloFrames
    \cup {Frame(Str_server, Str_set_name, [name |-> <<"a", " ", "b">>]),
          Frame(Str_server, Str_stroke_line,
                [x1 |-> 0, y1 |-> 0, x2 |-> 10, y2 |-> 10])}

BroadcastNext ==
  \/ ClientConnects(BroadcastClients)
  \/ ClientDisconnects
  \/ MessageArrives(BroadcastFrames, BroadcastLines)
  \/ ConnectionBreaks

BroadcastSpec == Init /\ [][BroadcastNext]_vars

\* the stroke-line frame of a client that draws from (its id, y1): the line
\* tells who drew it
SignedStroke(c, y1) ==
  Frame(Str_server, Str_stroke_line, [x1 |-> c, y1 |-> y1, x2 |-> 10, y2 |-> 10])

\* a signed stroke of a connected client arrives
SignedStrokeArrives ==
  \E c \in Registered, y1 \in {0, 1} :
    /\ \A k \in DOMAIN controllers : Len(controllers[k].drawnLines) < AuthorLines
    /\ Receive(c, SignedStroke(c, y1), AuthorLines)
    /\ UNCHANGED besideServer

\* the server with clients that come, say hello or not, sign their strokes,
\* ask for the restore and go
AuthorNext ==
  \/ ClientConnects(AuthorClients)
  \/ ClientDisconnects
  \/ MessageArrives(HelloFrames \cup RequestRestoreFrames, AuthorLines)
  \/ SignedStrokeArrives

AuthorSpec == Init /\ [][AuthorNext]_vars

\* controller tokens of a client's own making: the namespace in two
\* spellings, names of classes that are no controllers, the empty token
ControllerTokens ==
  { Str_server,
    <<"S","E","R","V","E","R">>,
    <<"s","e","r","v","e","r","-","c","o","n","t","r","o","l","l","e","r">>,
    <<"s","o","c","k","e","t","-","r","o","u","t","e","r">>,
    <<"s","o","c","k","e","t","-","c","o","m","m","a","n","d">>,
    <<"x">>,
    << >> }

\* action tokens of a client's own making: actions in two spellings, the
\* name of the helper randomColor in three, the empty token
ActionTokens ==
  { Str_hello,
    <<"H","E","L","L","O">>,
    Str_request_restore,
    Str_set_name,
    <<"h","e","l","l","o","-","a","c","t","i","o","n">>,
    <<"r","a","n","d","o","m","-","c","o","l","o","r">>,
    <<"r","a","n","d","o","m","C","o","l","o","r">>,
    <<"r","a","n","d","o","m","c","o","l","o","r">>,
    << >> }

\* the "parameters" of such frames: [], a string, a number and null
TokenParameters == << EmptyArray, Scalar(<<"a">>), Scalar(5), NullDocument >>

\* a frame with such tokens arrives
TokenMessage ==
  \E c \in Registered, controller \in ControllerTokens, action \in ActionTokens :
    /\ Receive(c, Frame(controller, action, EmptyArray), 0)
    /\ UNCHANGED besideServer

\* a set-name or request-restore frame with such "parameters" arrives
TokenParametersMessage ==
  \E c \in Registered, action \in {Str_set_name, Str_request_restore},
     i \in DOMAIN TokenParameters :
    /\ Receive(c, Frame(Str_server, action, TokenParameters[i]), 0)
    /\ UNCHANGED besideServer

\* the server with clients that send tokens of their own making
TokenNext ==
  \/ ClientConnects(TokenClients)
  \/ TokenMessage
  \/ TokenParametersMessage

TokenSpec == Init /\ [][TokenNext]_vars

\* the frames of InstanceSpec: hello, strokes and restores for 'server' and
\* for 'SERVER', and two frames the router refuses
InstanceFrames ==
  HelloFrames \cup StrokeLineFrames \cup RequestRestoreFrames
    \cup {Frame(<<"S","E","R","V","E","R">>, Str_stroke_line, c) : c \in CoordInputs}
    \cup { Frame(<<"S","E","R","V","E","R">>, Str_request_restore, EmptyArray),
           Frame(<<"x">>, Str_hello, EmptyArray),
           Frame(Str_server, <<"x">>, EmptyArray) }

\* a frame of InstanceFrames arrives
InstanceMessage ==
  \E c \in Registered, m \in InstanceFrames :
    /\ (m.action = Str_stroke_line) =>
         \A k \in DOMAIN controllers : Len(controllers[k].drawnLines) < InstanceLines
    /\ Receive(c, m, InstanceLines)
    /\ UNCHANGED besideServer

InstanceNext ==
  \/ ClientConnects(InstanceClients)
  \/ InstanceMessage

InstanceSpec == Init /\ [][InstanceNext]_vars

\* the two resolvers applied to each token of Tokens
ResolverInit ==
  /\ ServerInit
  /\ resolved \in {[NotResolving EXCEPT !.token = t] : t \in Tokens}
  /\ envelope = NoEnvelope
  /\ agent = NoAgent
  /\ peers = NoPeers

ResolverNext ==
  \/ ResolveAction
  \/ ResolveController

ResolverSpec == ResolverInit /\ [][ResolverNext]_vars

\* each well-formed document decoded into a SocketCommand and encoded again
CodecInit ==
  /\ ServerInit
  /\ resolved = NotResolving
  /\ envelope \in {[NoEnvelope EXCEPT !.stage = "document", !.document = d] :
                     d \in WellFormedDocuments}
  /\ agent = NoAgent
  /\ peers = NoPeers

CodecNext ==
  \/ DecodeEnvelope
  \/ EncodeEnvelope

CodecSpec == CodecInit /\ [][CodecNext]_vars

(***************************************************************************)
(* The action-name resolvers of the two sides on the same token            *)
(***************************************************************************)
\* the UTF-8 bytes of the units that are not ASCII
Utf8Table ==
  ("U+00E9" :> <<"0xC3", "0xA9">>) @@ ("U+00C9" :> <<"0xC3", "0x89">>)
    @@ ("U+00DF" :> <<"0xC3", "0x9F">>)
    @@ ("U+FB03" :> <<"0xEF", "0xAC", "0x83">>)
    @@ ("U+0390" :> <<"0xCE", "0x90">>) @@ ("U+0399" :> <<"0xCE", "0x99">>)
    @@ ("U+0308" :> <<"0xCC", "0x88">>) @@ ("U+0301" :> <<"0xCC", "0x81">>)

\* the PHP string json_decode makes of the JavaScript string s: its UTF-8
\* bytes
RECURSIVE Utf8(_)
Utf8(s) ==
  IF s = << >> THEN << >>
  ELSE (IF Head(s) \in DOMAIN Utf8Table THEN Utf8Table[Head(s)] ELSE <<Head(s)>>)
         \o Utf8(Tail(s))

\* the units of the action tokens: two ASCII letters, the hyphen, and units
\* whose upper case has one, two and three units: e-acute, the sharp s and
\* the ligature ffi
UnitAlphabet == {"a", "B", "-", "U+00E9", "U+00DF", "U+FB03"}

\* the action tokens, as JavaScript strings
UnitTokens ==
  { Str_hello, Str_set_name, Str_stroke_line, Str_request_restore, Str_welcome,
    Str_user_connected }
    \cup UNION {[1..n -> UnitAlphabet] : n \in 0..MaxUnits}

\* a token and no name yet
TwinInit ==
  /\ ServerInit
  /\ resolved \in {[token |-> t, serverName |-> Null, clientName |-> Null] :
                     t \in UnitTokens}
  /\ envelope = NoEnvelope
  /\ agent = NoAgent
  /\ peers = NoPeers

\* the server resolves the token as it receives it
TwinServer ==
  /\ resolved.serverName = Null
  /\ resolved' = [resolved EXCEPT !.serverName = getActionName(Utf8(resolved.token))]
  /\ UNCHANGED <<serverVars, envelope, agent, peers>>

\* the browser side resolves the token
TwinClient ==
  /\ resolved.clientName = Null
  /\ resolved' = [resolved EXCEPT !.clientName = JsActionName(resolved.token)]
  /\ UNCHANGED <<serverVars, envelope, agent, peers>>

TwinNext ==
  \/ TwinServer
  \/ TwinClient

TwinSpec == TwinInit /\ [][TwinNext]_vars

\* the loop of one side about to start on a token
LoopInit ==
  /\ ServerInit
  /\ resolved \in {[side |-> s, token |-> t, turns |-> 0, done |-> FALSE,
                    actionName |-> IF s = "server" THEN Utf8(t) ELSE t] :
                     s \in {"server", "client"}, t \in UnitTokens}
  /\ envelope = NoEnvelope
  /\ agent = NoAgent
  /\ peers = NoPeers

\* getActionName: one turn of the loop
ServerLoopTurn ==
  /\ resolved.side = "server" /\ ~resolved.done
  /\ strpos(resolved.actionName, "-") # -1
  /\ resolved' = [resolved EXCEPT !.actionName = ActionNameTurn(@),
                                  !.turns = @ + 1]
  /\ UNCHANGED <<serverVars, envelope, agent, peers>>

\* getActionName: the break, and the suffix
ServerLoopBreak ==
  /\ resolved.side = "server" /\ ~resolved.done
  /\ strpos(resolved.actionName, "-") = -1
  /\ resolved' = [resolved EXCEPT !.actionName = @ \o Str_Action,
                                  !.done = TRUE]
  /\ UNCHANGED <<serverVars, envelope, agent, peers>>

\* onSocketMessage: one turn of the loop
ClientLoopTurn ==
  /\ resolved.side = "client" /\ ~resolved.done
  /\ indexOf(resolved.actionName, "-") # -1
  /\ resolved' = [resolved EXCEPT !.actionName = JsActionNameTurn(@),
                                  !.turns = @ + 1]
  /\ UNCHANGED <<serverVars, envelope, agent, peers>>

\* onSocketMessage: the break, and the suffix
ClientLoopBreak ==
  /\ resolved.side = "client" /\ ~resolved.done
  /\ indexOf(resolved.actionName, "-") = -1
  /\ resolved' = [resolved EXCEPT !.actionName = @ \o Str_Action,
                                  !.done = TRUE]
  /\ UNCHANGED <<serverVars, envelope, agent, peers>>

LoopNext ==
  \/ ServerLoopTurn
  \/ ServerLoopBreak
  \/ ClientLoopTurn
  \/ ClientLoopBreak

\* a loop that can take a turn or break does so
LoopSpec == LoopInit /\ [][LoopNext]_vars /\ WF_vars(LoopNext)

\* the documents the server sends to the client with id 1 while the clients
\* 2 and 3 come, draw and go, and documents it never sends: actions without
\* method and a document without action
DispatchFrames ==
  { toString(SocketCommand(Str_client, Str_welcome,
       [id |-> 1, color |-> goodColors[1], users |-> << >>])),
    toString(SocketCommand(Str_client, Str_welcome,
       [id |-> 1, color |-> goodColors[1],
        users |-> << [id |-> 2, color |-> goodColors[2], name |-> Null] >>])),
    toString(SocketCommand(Str_client, Str_user_connecting, [id |-> 2])),
    toString(SocketCommand(Str_client, Str_restore, [lines |-> << >>])),
    toString(SocketCommand(Str_client, Str_restore,
       [lines |-> << [color |-> goodColors[2],
                      x1 |-> 0, y1 |-> 0, x2 |-> 10, y2 |-> 10] >>])),
    toString(SocketCommand(Str_client, <<"x">>, EmptyArray)),
    toString(SocketCommand(Str_client, <<"W","e","l","c","o","m","e">>,
       [id |-> 3, color |-> goodColors[3], users |-> << >>])),
    toString(SocketCommand(Str_client, <<"-">> \o Str_user_connected,
       [id |-> 3, color |-> goodColors[3]])),
    toString(SocketCommand(Str_client,
       <<"u","s","e","r","-","-","c","o","n","n","e","c","t","e","d">>,
       [id |-> 3, color |-> goodColors[1]])),
    [controller |-> Str_client, parameters |-> EmptyArray] }
  \cup UNION
    { { toString(SocketCommand(Str_client, Str_user_connected,
           [id |-> x, color |-> goodColors[x]])),
        toString(SocketCommand(Str_client, Str_name_changed,
           [id |-> x, name |-> <<"A">>])),
        toString(SocketCommand(Str_client, Str_user_disconnected, [id |-> x])),
        toString(SocketCommand(Str_client, Str_stroke_line,
           [id |-> x, x1 |-> 1, y1 |-> 2, x2 |-> 3, y2 |-> 4])) } :
      x \in {2, 3} }

\* one browser side, with the id 1, that no frame has reached; its page
\* has called initCanvas or has not
DispatchInit ==
  /\ ServerInit
  /\ resolved = NotResolving
  /\ envelope = NoEnvelope
  /\ agent = NoAgent
  /\ peers \in {(1 :> NewCollabDraw), (1 :> MakeCanvas(NewCollabDraw))}

\* the WebSocket fires its message event: onSocketMessage runs to its end or
\* to what it throws
DispatchMessage ==
  \E m \in DispatchFrames :
    /\ Len(peers[1].rendered) < DispatchLines
    /\ peers' = [peers EXCEPT ![1] = CollabDraw_onSocketMessage(@, m)]
    /\ UNCHANGED <<serverVars, resolved, envelope, agent>>

DispatchNext == DispatchMessage

DispatchSpec == DispatchInit /\ [][DispatchNext]_vars

(***************************************************************************)
(* The session: the server and the browser sides of its clients            *)
(***************************************************************************)
\* the frames of sent written to client c reach its WebSocket in the order
\* of the writes
Arrive(p, c, sent) ==
  LET mine == ReceivedBy(c, sent)
      drawn == SelectSeq(mine, LAMBDA d : d.action = Str_stroke_line)
      restores == {i \in 1..Len(mine) : mine[i].action = Str_restore}
      newest == CHOOSE i \in restores : \A j \in restores : j <= i
  IN  [p EXCEPT !.inbox = @ \o mine,
                !.strokes = @ \o drawn,
                !.sinceRestore =
                   IF restores # {}
                     THEN <<mine[newest]>>
                            \o SelectSeq(SubSeq(mine, newest + 1, Len(mine)),
                                         LAMBDA d : d.action = Str_stroke_line)
                     ELSE IF @ = << >> THEN @ ELSE @ \o drawn]

\* the writes of one listener call reach the browser sides ps
Deliver(ps, sent) == [c \in DOMAIN ps |-> Arrive(ps[c], c, sent)]

\* the names the users of the session type
SessionNames == { <<"a">>, <<"b", " ", "c">> }

\* every browser side has fewer than maxInbox frames to handle
InboxesShort(maxInbox) ==
  \A c \in DOMAIN peers : Len(peers[c].inbox) < maxInbox

\* a browser connects: the server accepts it; its page has made a
\* CollabDraw and called initCanvas before the socket was open, so that the
\* canvas is there and the send of line 491 threw
SessionConnects(maxId, maxInbox) ==
  /\ InboxesShort(maxInbox)
  /\ Accept(maxId)
  /\ peers' = Deliver((nextId :> MakeCanvas(NewCollabDraw)) @@ peers, out')
  /\ UNCHANGED <<resolved, envelope, agent>>

\* a browser goes away
SessionDisconnects(maxInbox) ==
  \E c \in Registered :
    /\ InboxesShort(maxInbox)
    /\ Disconnect(c)
    /\ peers' = Deliver([x \in DOMAIN peers \ {c} |-> peers[x]], out')
    /\ UNCHANGED <<resolved, envelope, agent>>

\* the hello a browser side sends when its connection opens reaches the
\* server
SessionHello(maxInbox) ==
  \E c \in Registered, m \in HelloFrames :
    /\ InboxesShort(maxInbox)
    /\ "color" \notin DOMAIN state[c]
    /\ Receive(c, m, 0)
    /\ peers' = Deliver(peers, out')
    /\ UNCHANGED <<resolved, envelope, agent>>

\* a frame a browser side sent after its hello reaches the server
SessionMessage(frames, maxLines, maxInbox) ==
  \E c \in Registered, m \in frames :
    /\ InboxesShort(maxInbox)
    /\ "color" \in DOMAIN state[c]
    /\ Receive(c, m, maxLines)
    /\ peers' = Deliver(peers, out')
    /\ UNCHANGED <<resolved, envelope, agent>>

\* the WebSocket of a browser side fires the message event of its oldest
\* frame
SessionHandles ==
  \E c \in DOMAIN peers :
    /\ peers[c].inbox # << >>
    /\ peers' = [peers EXCEPT ![c] =
                   CollabDraw_onSocketMessage([@ EXCEPT !.inbox = Tail(@)],
                                              Head(peers[c].inbox))]
    /\ UNCHANGED <<serverVars, resolved, envelope, agent>>

\* browsers that connect, say hello, draw and go
DrawSessionNext ==
  \/ SessionConnects(DrawSessionClients, DrawSessionInbox)
  \/ SessionDisconnects(DrawSessionInbox)
  \/ SessionHello(DrawSessionInbox)
  \/ SessionMessage(StrokeLineFrames, DrawSessionLines, DrawSessionInbox)
  \/ SessionHandles

DrawSessionSpec == Init /\ [][DrawSessionNext]_vars

\* browsers that connect, say hello and go
HelloSessionNext ==
  \/ SessionConnects(HelloSessionClients, HelloSessionInbox)
  \/ SessionDisconnects(HelloSessionInbox)
  \/ SessionHello(HelloSessionInbox)
  \/ SessionHandles

HelloSessionSpec == Init /\ [][HelloSessionNext]_vars

\* the request-restore of a browser reaches the server: its page had
\* called initCanvas once more, with the socket open, which made the canvas
\* anew and sent the frame (line 491)
SessionRestore(maxInbox) ==
  \E c \in Registered, m \in RequestRestoreFrames :
    /\ InboxesShort(maxInbox)
    /\ "color" \in DOMAIN state[c]
    /\ peers[c].sinceRestore = << >>
    /\ Receive(c, m, 0)
    /\ peers' = Deliver(peers, out')
    /\ UNCHANGED <<resolved, envelope, agent>>

\* browsers that connect, say hello, draw, ask for the restore and go
RestoreSessionNext ==
  \/ SessionConnects(RestoreSessionClients, RestoreSessionInbox)
  \/ SessionDisconnects(RestoreSessionInbox)
  \/ SessionHello(RestoreSessionInbox)
  \/ SessionMessage(StrokeLineFrames, RestoreSessionLines, RestoreSessionInbox)
  \/ SessionRestore(RestoreSessionInbox)
  \/ SessionHandles

RestoreSessionSpec == Init /\ [][RestoreSessionNext]_vars

\* a frame of a connected client reaches the server, whatever the client
\* has sent before
SessionFrame(frames, maxLines, maxInbox) ==
  \E c \in Registered, m \in frames :
    /\ InboxesShort(maxInbox)
    /\ Receive(c, m, maxLines)
    /\ peers' = Deliver(peers, out')
    /\ UNCHANGED <<resolved, envelope, agent>>

\* clients that connect, say hello and name themselves in any order and any
\* number of times, and the frames that reach their browser sides
OrderSessionNext ==
  \/ SessionConnects(OrderSessionClients, OrderSessionInbox)
  \/ SessionFrame(HelloFrames
                    \cup {Frame(Str_server, Str_set_name, [name |-> <<"a">>])},
                  0, OrderSessionInbox)
  \/ SessionHandles

OrderSessionSpec == Init /\ [][OrderSessionNext]_vars

\* browsers that connect, say hello, name themselves, draw, ask for the
\* restore and go: every envelope of the protocol is sent and handled
ProtocolSessionNext ==
  \/ SessionConnects(ProtocolSessionClients, ProtocolSessionInbox)
  \/ SessionDisconnects(ProtocolSessionInbox)
  \/ SessionHello(ProtocolSessionInbox)
  \/ SessionMessage({Frame(Str_server, Str_set_name, [name |-> <<"a">>]),
                     Frame(Str_server, Str_stroke_line,
                           [x1 |-> 0, y1 |-> 0, x2 |-> 10, y2 |-> 10])},
                    ProtocolSessionLines, ProtocolSessionInbox)
  \/ SessionRestore(ProtocolSessionInbox)
  \/ SessionHandles

ProtocolSessionSpec == Init /\ [][ProtocolSessionNext]_vars

\* the frames with which the users of the session name themselves
SessionNameFrames ==
  {Frame(Str_server, Str_set_name, [name |-> n]) : n \in SessionNames}

\* browsers that connect, say hello and name themselves, and the frames that
\* reach them
NameSessionNext ==
  \/ SessionConnects(NameSessionClients, NameSessionInbox)
  \/ SessionHello(NameSessionInbox)
  \/ SessionMessage(SessionNameFrames, 0, NameSessionInbox)
  \/ SessionHandles

NameSessionSpec == Init /\ [][NameSessionNext]_vars

\* one browser side, from the page's call of init to the end of its
\* connection
AgentNext ==
  \/ PageStarts
  \/ SocketOpens
  \/ SocketErrors
  \/ SocketCloses
  \/ PageCalls

AgentSpec == Init /\ [][AgentNext]_vars


(***************************************************************************)
(* What the claims speak of                                                *)
(***************************************************************************)
\* the Drawn-Line Log: $drawnLines of the ServerController the router
\* holds, empty while the router has made no instance
DrawnLines ==
  IF Str_ServerController \in DOMAIN controllers
    THEN controllers[Str_ServerController].drawnLines
    ELSE EmptyArray

\* the listener call processed last was a protocol frame with this action
Handled(action) ==
  /\ event.type = "message"
  /\ event.message \in ProtocolFrames
  /\ event.message.action = action

\* the line record of a stroke-line command with parameters p from a sender
\* whose state is st
LineRecord(st, p) ==
  [color |-> IF "color" \in DOMAIN st THEN st["color"] ELSE Null,
   x1 |-> p.x1, y1 |-> p.y1, x2 |-> p.x2, y2 |-> p.y2]

\* a document of namespace 'client'
ClientDocument(action, parameters) ==
  [controller |-> Str_client, action |-> action, parameters |-> parameters]

\* how many sends of sent went to client c
SendsTo(c, sent) == Len(SelectSeq(sent, LAMBDA d : d.to = c))

\* the clients the sends of sent went to
Recipients(sent) == {sent[i].to : i \in 1..Len(sent)}

\* every registered client was sent the document once, and nobody anything else
BroadcastOf(document, sent, registered) ==
  /\ Len(sent) = Cardinality(registered)
  /\ \A c \in registered : SendsTo(c, sent) = 1
  /\ \A i \in 1..Len(sent) : sent[i].to \in registered /\ sent[i].command = document

(***************************************************************************)
(* C1: in every step, a processed stroke-line command appends exactly its  *)
(* own line record (the sender's colour at that moment and the four        *)
(* coordinates of the command) at the end of the Drawn-Line Log, and every *)
(* other event (connect, disconnect, hello, set-name, request-restore, a   *)
(* refused frame) leaves the log as it was: the log is the sequence of the *)
(* line records of the stroke-line commands processed so far, in arrival   *)
(* order.                                                                  *)
(***************************************************************************)
C1_LogIsArrivalOrder ==
  [][IF Handled(Str_stroke_line)'
       THEN DrawnLines' = Append(DrawnLines,
                                 LineRecord(state[event'.client],
                                            event'.message.parameters))
       ELSE DrawnLines' = DrawnLines]_vars

\* two strokes of two clients, told apart by their colours, are in the log
C1_Witness ==
  /\ Handled(Str_stroke_line)
  /\ Len(DrawnLines) = 2
  /\ DrawnLines[1].color = goodColors[2]
  /\ DrawnLines[2].color = goodColors[1]
  /\ DrawnLines[1].x1 # DrawnLines[2].x1

(***************************************************************************)
(* C2: a processed request-restore makes exactly one send, to the          *)
(* requesting client: the restore document whose lines are the whole       *)
(* Drawn-Line Log in its order; it raises nothing and changes neither the  *)
(* log nor the state of any client.                                        *)
(***************************************************************************)
C2_RestoreRepliesWithLog ==
  [][Handled(Str_request_restore)' =>
       /\ out' = << [to |-> event'.client,
                     command |-> ClientDocument(Str_restore,
                                                [lines |-> DrawnLines])] >>
       /\ error' = "none"
       /\ DrawnLines' = DrawnLines
       /\ state' = state
       /\ clients' = clients]_vars

\* the restore replays two lines, the first drawn by client 1, who has left,
\* to a client that drew none of them
C2_Witness ==
  /\ Handled(Str_request_restore)
  /\ Len(out) = 1
  /\ Len(out[1].command.parameters.lines) = 2
  /\ out[1].command.parameters.lines[1].color = goodColors[1]
  /\ 1 \notin Registered
  /\ "graphics.lines" \notin DOMAIN state[event.client]

(***************************************************************************)
(* C3: after a processed hello with N clients registered, the sends are    *)
(* exactly one welcome, to the sender, and N user-connected{id, color},    *)
(* one to each registered client, the sender among them; the users list of *)
(* the welcome has one entry {id, color, name} for each of the N-1 other   *)
(* registered clients and none for the sender.                             *)
(***************************************************************************)
C3_HelloFanOut ==
  Handled(Str_hello) =>
    LET sender == event.client
        color == state[sender]["color"]
        welcomes == SelectSeq(out, LAMBDA d : d.command.action = Str_welcome)
        connected ==
          SelectSeq(out, LAMBDA d : d.command.action = Str_user_connected)
        users == welcomes[1].command.parameters.users
    IN  /\ Len(out) = Len(welcomes) + Len(connected)
        /\ BroadcastOf(ClientDocument(Str_user_connected,
                                      [id |-> sender, color |-> color]),
                       connected, Registered)
        /\ Len(welcomes) = 1
        /\ welcomes[1].to = sender
        /\ welcomes[1].command.controller = Str_client
        /\ welcomes[1].command.parameters.id = sender
        /\ welcomes[1].command.parameters.color = color
        /\ Len(users) = Cardinality(Registered) - 1
        /\ {users[i].id : i \in 1..Len(users)} = Registered \ {sender}
        /\ \A i \in 1..Len(users) :
             users[i] =
               [id    |-> users[i].id,
                color |-> IF "color" \in DOMAIN state[users[i].id]
                            THEN state[users[i].id]["color"] ELSE Null,
                name  |-> IF "name" \in DOMAIN state[users[i].id]
                            THEN state[users[i].id]["name"] ELSE Null]

\* the hello of a third client: two clients were registered before it, one
\* of them with a colour, the other without
C3_Witness ==
  /\ Handled(Str_hello)
  /\ Cardinality(Registered) = 3
  /\ Len(out) = 4
  /\ \E i, j \in 1..2 :
       /\ out[1].command.parameters.users[i].color = Null
       /\ out[1].command.parameters.users[j].color # Null

(***************************************************************************)
(* C4: after a processed hello the sender's state holds a colour under     *)
(* 'color', and whenever some entry of the palette is held by no other     *)
(* registered client, that colour is such an entry and not a random one.   *)
(***************************************************************************)
C4_PaletteWhileAvailable ==
  Handled(Str_hello) =>
    LET sender == event.client
        held == {state[c]["color"] :
                   c \in {x \in Registered \ {sender} : "color" \in DOMAIN state[x]}}
        free == {goodColors[i] : i \in 1..Len(goodColors)} \ held
    IN  /\ "color" \in DOMAIN state[sender]
        /\ free # {} => state[sender]["color"] \in free

(***************************************************************************)
(* C5: a processed set-name whose name is absent or blank after trimming   *)
(* raises 'Empty name not allowed', makes no send and leaves the state of  *)
(* every client, the sender's stored name with it, as it was.              *)
(***************************************************************************)
BlankName(parameters) ==
  \/ "name" \notin DOMAIN parameters
  \/ \A i \in 1..Len(parameters.name) : parameters.name[i] = " "

C5_BlankNameFails ==
  [][(Handled(Str_set_name)' /\ BlankName(event'.message.parameters)) =>
       /\ error' = "Empty name not allowed"
       /\ out' = << >>
       /\ state' = state]_vars

(***************************************************************************)
(* C6: a processed set-name whose name is not blank stores the name with   *)
(* the first letter of each word in upper case in the sender's state and   *)
(* sends name-changed{id, name} once to every registered client, the       *)
(* sender among them, and to no one else; the Drawn-Line Log and the state *)
(* of every other client stay as they were.                                *)
(***************************************************************************)
TitleCased(name) ==
  [i \in 1..Len(name) |->
     IF (i = 1 \/ name[i-1] = " ") /\ name[i] \in DOMAIN UpperOf
       THEN UpperOf[name[i]]
       ELSE name[i]]

C6_NameIsStoredAndBroadcast ==
  [][(Handled(Str_set_name)' /\ ~BlankName(event'.message.parameters)) =>
       LET sender == event'.client
           name == TitleCased(event'.message.parameters.name)
       IN  /\ error' = "none"
           /\ state' = [state EXCEPT ![sender] = ("name" :> name) @@ @]
           /\ BroadcastOf(ClientDocument(Str_name_changed,
                                         [id |-> sender, name |-> name]),
                          out', Registered)
           /\ DrawnLines' = DrawnLines]_vars

(***************************************************************************)
(* C7: a processed stroke-line of sender S appends one and the same line   *)
(* record {color: the colour S holds, x1, y1, x2, y2} to S's own           *)
(* 'graphics.lines' and to the Drawn-Line Log, and sends                   *)
(* stroke-line{id: S, x1, y1, x2, y2} once to every registered client, S   *)
(* among them.                                                             *)
(***************************************************************************)
C7_StrokeIsLoggedTwiceAndBroadcast ==
  [][Handled(Str_stroke_line)' =>
       LET sender == event'.client
           p == event'.message.parameters
           line == LineRecord(state[sender], p)
           own == IF "graphics.lines" \in DOMAIN state[sender]
                    THEN state[sender]["graphics.lines"] ELSE << >>
       IN  /\ error' = "none"
           /\ DrawnLines' = Append(DrawnLines, line)
           /\ state' = [state EXCEPT
                          ![sender] = ("graphics.lines" :> Append(own, line)) @@ @]
           /\ BroadcastOf(ClientDocument(Str_stroke_line,
                            [id |-> sender, x1 |-> p.x1, y1 |-> p.y1,
                             x2 |-> p.x2, y2 |-> p.y2]),
                          out', Registered)]_vars

\* the second stroke of a client that has a colour, seen by two clients,
\* after a stroke of the other client
C7_Witness ==
  /\ Handled(Str_stroke_line)
  /\ Cardinality(Registered) = 2
  /\ Len(out) = 2
  /\ Len(DrawnLines) = 2
  /\ "graphics.lines" \in DOMAIN state[event.client]
  /\ Len(state[event.client]["graphics.lines"]) = 1
  /\ DrawnLines[2].color # Null
  /\ DrawnLines[2] = state[event.client]["graphics.lines"][1]

(***************************************************************************)
(* C8: the disconnect of client A sends user-disconnected{id: A} once to   *)
(* every client that stays registered and nothing to A; and a client that  *)
(* has left is never registered again and is sent nothing by any later     *)
(* event.                                                                  *)
(***************************************************************************)
C8_DisconnectExclusion ==
  [][/\ event'.type = "disconnect" =>
          /\ event'.client \in Registered
          /\ Registered' = Registered \ {event'.client}
          /\ BroadcastOf(ClientDocument(Str_user_disconnected,
                                        [id |-> event'.client]),
                         out', Registered')
     /\ \A a \in (FirstId..(nextId - 1)) \ Registered :
          a \notin Registered' /\ SendsTo(a, out') = 0]_vars

\* a client leaves and the three that stay are told; an earlier client had
\* left before
C8_Witness ==
  /\ event.type = "disconnect"
  /\ Len(out) = 3
  /\ Cardinality(Registered) = 3
  /\ nextId - FirstId = 5

(***************************************************************************)
(* C9: the connect of a new client sends user-connecting{id: new id} once  *)
(* to every client that was registered before and nothing to the new       *)
(* client; it leaves the state of those clients and the Drawn-Line Log as  *)
(* they were.                                                              *)
(***************************************************************************)
C9_ConnectNotifiesOthers ==
  [][event'.type = "connect" =>
       /\ event'.client \notin Registered
       /\ Registered' = Registered \cup {event'.client}
       /\ BroadcastOf(ClientDocument(Str_user_connecting,
                                     [id |-> event'.client]),
                      out', Registered)
       /\ \A c \in Registered : state'[c] = state[c]
       /\ DrawnLines' = DrawnLines
       /\ controllers' = controllers
       /\ error' = "none"]_vars

\* the third client connects: two clients are told, one of them has a
\* colour and has drawn the line of the log
C9_Witness ==
  /\ event.type = "connect"
  /\ Len(out) = 2
  /\ Len(DrawnLines) = 1
  /\ \E c \in Registered :
       /\ "graphics.lines" \in DOMAIN state[c]
       /\ "color" \in DOMAIN state[c]

(***************************************************************************)
(* C10: in the scenario of three clients (C1 connects and says hello; C2   *)
(* connects and says hello; C1 strokes (0,0,10,10); C3 connects, says      *)
(* hello and requests the restore), with ids 1, 2, 3 and c1, c2, c3 the    *)
(* first three colours of the palette, the clients have received, in this  *)
(* order and nothing else:                                                 *)
(*   C1: welcome{1,c1,[]}, user-connected{1,c1}, user-connecting{2},       *)
(*       user-connected{2,c2}, stroke-line{1,0,0,10,10},                   *)
(*       user-connecting{3}, user-connected{3,c3};                         *)
(*   C2: welcome{2,c2,[{1,c1,null}]}, user-connected{2,c2},                *)
(*       stroke-line{1,0,0,10,10}, user-connecting{3},                     *)
(*       user-connected{3,c3};                                             *)
(*   C3: welcome{3,c3,[{1,c1,null},{2,c2,null}]}, user-connected{3,c3},    *)
(*       restore{lines:[{c1,0,0,10,10}]}.                                  *)
(***************************************************************************)
ScenarioWelcome(id, users) ==
  ClientDocument(Str_welcome,
                 [id |-> id, color |-> goodColors[id], users |-> users])

ScenarioUser(id) == [id |-> id, color |-> goodColors[id], name |-> Null]

ScenarioConnecting(id) == ClientDocument(Str_user_connecting, [id |-> id])

ScenarioConnected(id) ==
  ClientDocument(Str_user_connected, [id |-> id, color |-> goodColors[id]])

ScenarioStroke ==
  ClientDocument(Str_stroke_line,
                 [id |-> 1, x1 |-> 0, y1 |-> 0, x2 |-> 10, y2 |-> 10])

ScenarioRestore ==
  ClientDocument(Str_restore,
                 [lines |-> << [color |-> goodColors[1],
                                x1 |-> 0, y1 |-> 0, x2 |-> 10, y2 |-> 10] >>])

ScenarioDone == scenario.step = Len(ScenarioScript)

C10_ScenarioTranscript ==
  ScenarioDone =>
    scenario.received =
      << << ScenarioWelcome(1, EmptyArray), ScenarioConnected(1),
            ScenarioConnecting(2), ScenarioConnected(2), ScenarioStroke,
            ScenarioConnecting(3), ScenarioConnected(3) >>,
         << ScenarioWelcome(2, << ScenarioUser(1) >>), ScenarioConnected(2),
            ScenarioStroke, ScenarioConnecting(3), ScenarioConnected(3) >>,
         << ScenarioWelcome(3, << ScenarioUser(1), ScenarioUser(2) >>),
            ScenarioConnected(3), ScenarioRestore >> >>

\* the scenario has run to its end: the probe saw its eight events, the
\* restore went out last
C10_Witness ==
  /\ ScenarioDone
  /\ Handled(Str_request_restore)
  /\ event.client = 3
  /\ Len(scenario.received[3]) > 0

\* C10 as stated: C1 has received exactly welcome, user-connecting{2},
\* user-connected{2,c2} and the stroke; C2 exactly welcome,
\* user-connected{2,c2} and the stroke; C3 exactly the restore
C10_ScenarioAsStated ==
  ScenarioDone =>
    scenario.received =
      << << ScenarioWelcome(1, EmptyArray), ScenarioConnecting(2),
            ScenarioConnected(2), ScenarioStroke >>,
         << ScenarioWelcome(2, << ScenarioUser(1) >>), ScenarioConnected(2),
            ScenarioStroke >>,
         << ScenarioRestore >> >>

(***************************************************************************)
(* C11: a frame that is not decodable, or that is decodable and lacks the  *)
(* controller or the action field, is discarded: no handler is invoked, no *)
(* client state, controller or log entry changes, nothing is sent, the     *)
(* sender stays registered, and the call ends normally or with the         *)
(* missing-field error and with nothing worse, so that later messages are  *)
(* routed.                                                                 *)
(***************************************************************************)
C11_ProtocolErrorIsDiscarded ==
  [][(event'.type = "message" /\ event'.message \in ProtocolErrorFrames) =>
       /\ calls' = << >>
       /\ out' = << >>
       /\ state' = state
       /\ controllers' = controllers
       /\ clients' = clients
       /\ error' \in {"none", "Missing controller name"}
       /\ Running']_vars

(***************************************************************************)
(* C12: a frame with both fields either makes exactly one call, of the     *)
(* method that the resolved controller name and the resolved action name   *)
(* designate, or makes no call and fails: with the class-not-found error   *)
(* when no class has the resolved controller name, whatever the action,    *)
(* and with the not-callable error when the class exists and has no method *)
(* of the resolved action name.                                            *)
(***************************************************************************)
BothFields(message) ==
  "controller" \in DOMAIN message /\ "action" \in DOMAIN message

C12_OneHandlerOrExplicitFailure ==
  [][(event'.type = "message" /\ BothFields(event'.message)) =>
       LET group == getControllerName(event'.message.controller)
           method == getActionName(event'.message.action)
       IN  IF group \notin ControllerClasses
             THEN /\ error' = "Controller class not found"
                  /\ calls' = << >>
                  /\ out' = << >>
                  /\ state' = state
                  /\ controllers' = controllers
           ELSE IF method \notin ControllerMethods
             THEN /\ error' = "Controller method is not callable"
                  /\ calls' = << >>
                  /\ out' = << >>
                  /\ state' = state
                  /\ DrawnLines' = DrawnLines
           ELSE calls' = << [controller |-> group, method |-> method] >>]_vars

\* each of the three outcomes has happened: the frame with an unknown
\* controller and an unknown action, refused for its controller
C12_Witness ==
  /\ event.type = "message"
  /\ event.message = Frame(<<"x">>, <<"x">>, EmptyArray)
  /\ error = "Controller class not found"
  /\ calls = << >>
  /\ Len(DrawnLines) = 1
  /\ Cardinality(Registered) = 2

(***************************************************************************)
(* C13: the error a handler or the router raises is the error the          *)
(* message-received listener ends with, and the handler has done nothing   *)
(* after raising it: an empty name ends the call with 'Empty name not      *)
(* allowed', an unknown controller with the class-not-found error, an      *)
(* unknown action with the not-callable error, a missing field with the    *)
(* missing-field error, each time with no send and no change of a client's *)
(* state or of the log.                                                    *)
(***************************************************************************)
RaisedBy(message) ==
  CASE message = Frame(Str_server, Str_set_name, [name |-> << >>]) ->
         "Empty name not allowed"
    [] message = Frame(<<"x">>, Str_hello, EmptyArray) ->
         "Controller class not found"
    [] message = Frame(<<"x">>, <<"x">>, EmptyArray) ->
         "Controller class not found"
    [] message = Frame(Str_server, <<"x">>, EmptyArray) ->
         "Controller method is not callable"
    [] message = [controller |-> Str_server, parameters |-> EmptyArray] ->
         "Missing controller name"
    [] message = [action |-> Str_hello, parameters |-> EmptyArray] ->
         "Missing controller name"
    [] OTHER -> "none"

C13_ErrorsLeaveTheListener ==
  [][(event'.type = "message" /\ RaisedBy(event'.message) # "none") =>
       /\ error' = RaisedBy(event'.message)
       /\ out' = << >>
       /\ state' = state
       /\ DrawnLines' = DrawnLines]_vars

\* a client that has a name and a colour sends the empty name while another
\* client is registered: the handler was called and raised
C13_Witness ==
  /\ Handled(Str_set_name)
  /\ error = "Empty name not allowed"
  /\ calls = << [controller |-> Str_ServerController,
                 method |-> Str_setNameAction] >>
  /\ Cardinality(Registered) = 2
  /\ "name" \in DOMAIN state[event.client]
  /\ out = << >>

(***************************************************************************)
(* C14: in every broadcast (user-connecting on a connect,                  *)
(* user-disconnected on a disconnect, user-connected on a hello,           *)
(* name-changed on an accepted set-name, stroke-line on a stroke-line),    *)
(* each registered recipient whose connection takes writes receives the    *)
(* message of the broadcast exactly once, whatever connections of other    *)
(* recipients fail their write.                                            *)
(***************************************************************************)
Receives(c, action, sent) ==
  Len(SelectSeq(Delivered(sent),
                LAMBDA d : d.to = c /\ d.command.action = action))

C14_BroadcastIsBestEffort ==
  [][/\ event'.type = "connect" =>
          \A c \in Registered \ failing :
            Receives(c, Str_user_connecting, out') = 1
     /\ event'.type = "disconnect" =>
          \A c \in Registered' \ failing :
            Receives(c, Str_user_disconnected, out') = 1
     /\ Handled(Str_hello)' =>
          \A c \in Registered \ failing :
            Receives(c, Str_user_connected, out') = 1
     /\ (Handled(Str_set_name)' /\ error' = "none") =>
          \A c \in Registered \ failing :
            Receives(c, Str_name_changed, out') = 1
     /\ Handled(Str_stroke_line)' =>
          \A c \in Registered \ failing :
            Receives(c, Str_stroke_line, out') = 1]_vars

\* a stroke is broadcast to three clients while the connection of the first
\* client of the loop fails its write: the two after it receive the stroke
C14_Witness ==
  /\ Handled(Str_stroke_line)
  /\ Len(clients) = 3
  /\ failing = {clients[1]}
  /\ Len(out) = 3
  /\ Len(Delivered(out)) = 2
  /\ \A i \in 2..3 : Receives(clients[i], Str_stroke_line, out) = 1

(***************************************************************************)
(* C15: getActionName gives, for every token, the token without its '-'    *)
(* characters, each character that stood right after a '-' in upper case,  *)
(* followed by 'Action'; the name has no '-' in it.  'request-restore'     *)
(* gives 'requestRestoreAction', 'set-name' 'setNameAction' and 'hello'    *)
(* 'helloAction'.                                                          *)
(***************************************************************************)
CamelCased(token, first) ==
  SelectSeq([i \in 1..Len(token) |->
               IF (i = 1 /\ first) \/ (i > 1 /\ token[i-1] = "-")
                 THEN (IF token[i] \in DOMAIN UpperOf
                         THEN UpperOf[token[i]] ELSE token[i])
                 ELSE token[i]],
            LAMBDA c : c # "-")

C15_ActionNameOfToken ==
  resolved.actionName # Null =>
    /\ resolved.actionName = CamelCased(resolved.token, FALSE) \o Str_Action
    /\ \A i \in 1..Len(resolved.actionName) : resolved.actionName[i] # "-"
    /\ resolved.token = Str_request_restore =>
         resolved.actionName = Str_requestRestoreAction
    /\ resolved.token = Str_set_name => resolved.actionName = Str_setNameAction
    /\ resolved.token = Str_hello => resolved.actionName = Str_helloAction

\* 'request-restore' has been resolved
C15_Witness ==
  /\ resolved.token = Str_request_restore
  /\ resolved.actionName = Str_requestRestoreAction

(***************************************************************************)
(* C16: getControllerName gives, for every hyphenated token, its segments  *)
(* between the '-' characters, each with its first character in upper      *)
(* case, one after the other, followed by 'Controller'.  'server' gives    *)
(* 'ServerController', 'user-manager' 'UserManagerController'.             *)
(***************************************************************************)
C16_ControllerNameOfToken ==
  resolved.controllerName # Null =>
    /\ resolved.controllerName =
         CamelCased(resolved.token, TRUE) \o Str_Controller
    /\ resolved.token = Str_server =>
         resolved.controllerName = Str_ServerController
    /\ resolved.token = <<"u","s","e","r","-","m","a","n","a","g","e","r">> =>
         resolved.controllerName =
           <<"U","s","e","r","M","a","n","a","g","e","r">> \o Str_Controller

\* 'user-manager' has been resolved
C16_Witness ==
  /\ resolved.token = <<"u","s","e","r","-","m","a","n","a","g","e","r">>
  /\ resolved.controllerName =
       <<"U","s","e","r","M","a","n","a","g","e","r">> \o Str_Controller

(***************************************************************************)
(* C17: a well-formed document with the fields controller, action and      *)
(* parameters, decoded into a SocketCommand and encoded again, is the      *)
(* document it was: the three fields controller, action, parameters, with  *)
(* the same namespace, the same action and the same parameter map.         *)
(***************************************************************************)
C17_EnvelopeRoundTrip ==
  envelope.stage = "encoded" => envelope.encoded = envelope.document

(***************************************************************************)
(* C18: a client that has disconnected is gone with its state: the         *)
(* registry holds no state for it, no send of any later event (welcome,    *)
(* restore or one of the five broadcasts) goes to it, and the users list   *)
(* of no later welcome has an entry for it.                                *)
(***************************************************************************)
Departed == (FirstId..(nextId - 1)) \ Registered

C18_DepartedClientsAreGone ==
  \A a \in Departed :
    /\ a \notin DOMAIN state
    /\ \A i \in 1..Len(out) :
         /\ out[i].to # a
         /\ out[i].command.action = Str_welcome =>
              \A j \in 1..Len(out[i].command.parameters.users) :
                out[i].command.parameters.users[j].id # a

\* the third client says hello after the first has left: its welcome lists
\* the second client only, and two clients are told
C18_Witness ==
  /\ Handled(Str_hello)
  /\ event.client = 3
  /\ Departed = {1}
  /\ Len(out) = 3
  /\ Len(out[1].command.parameters.users) = 1
  /\ out[1].command.parameters.users[1].id = 2

(***************************************************************************)
(* C19: the connection of the browser side becomes open only from          *)
(* connecting; once it has been closed or has failed ('Connection lost' or *)
(* 'Error occured' is shown) it stays so: it does not become open, no new  *)
(* WebSocket is made and no hello is sent.  A WebSocket is made only by    *)
(* the page's call of init.                                                *)
(***************************************************************************)
HelloFrame == JsEncode(JsCommand(Str_server, Str_hello, JsonList(<< >>)))

Hellos(sent) == Len(SelectSeq(sent, LAMBDA f : f = HelloFrame))

Ended(a) == a.status \in {"Connection lost", "Error occured"}

C19_ClosedAndErroredAreTerminal ==
  [][/\ (~agent.open /\ agent'.open) =>
          (agent.socket = "CONNECTING" /\ ~Ended(agent))
     /\ Ended(agent) =>
          /\ Ended(agent')
          /\ ~(~agent.open /\ agent'.open)
          /\ agent'.sockets = agent.sockets
          /\ Hellos(agent'.sent) = Hellos(agent.sent)
     /\ agent'.sockets # agent.sockets => agent.socket = "none"]_vars

\* the connection was open, was used, failed and was closed, and a call of
\* the page after that was refused
C19_Witness ==
  /\ agent.socket = "CLOSED"
  /\ agent.status = "Connection lost"
  /\ ~agent.open
  /\ agent.sockets = 1
  /\ Len(agent.sent) = 2
  /\ agent.thrown = "Unable to send command, socket is not open"

(***************************************************************************)
(* C20: the browser side sends one hello of namespace 'server' without     *)
(* parameters when its connection opens and at no other moment; the hello  *)
(* is the first frame of the connection, and nothing is sent while the     *)
(* connection has not opened.                                              *)
(***************************************************************************)
C20_HelloOnOpen ==
  [][/\ IF agent.socket = "CONNECTING" /\ agent'.socket = "OPEN"
          THEN agent'.sent = Append(agent.sent, HelloFrame)
          ELSE Hellos(agent'.sent) = Hellos(agent.sent)
     /\ agent'.sent # << >> => agent'.sent[1] = HelloFrame
     /\ agent'.socket \in {"none", "CONNECTING"} => agent'.sent = << >>
     /\ Hellos(agent'.sent) <= 1]_vars

\* a call of the page before the open event was refused, then the
\* connection opened, the hello went out first and a set-name after it
C20_Witness ==
  /\ agent.socket = "OPEN"
  /\ Len(agent.sent) = 2
  /\ agent.sent[1] = HelloFrame
  /\ agent.sent[2] # HelloFrame
  /\ agent.thrown = "none"

(***************************************************************************)
(* C21: a message whose action names no handler of the browser side makes  *)
(* onSocketMessage throw 'Unsupported action', run no handler and leave    *)
(* id, colour, users and drawing as they were; a message whose action      *)
(* names a handler makes it run that handler once, with the command made   *)
(* of the message's three fields.                                          *)
(***************************************************************************)
\* the actions the browser side has a handler for
ClientActions ==
  { Str_welcome, Str_name_changed, Str_user_connecting, Str_user_connected,
    Str_user_disconnected, Str_stroke_line, Str_restore }

LocalHandlerNames == {CamelCased(t, FALSE) \o Str_Action : t \in ClientActions}

C21_UnsupportedActionOrOneHandler ==
  [][LET p == peers[1]
         q == peers'[1]
         m == q.last.message
     IN  "action" \in DOMAIN m =>
           IF CamelCased(m.action, FALSE) \o Str_Action \notin LocalHandlerNames
             THEN /\ q.thrown = "Unsupported action called"
                  /\ q.last.unsupported = CamelCased(m.action, FALSE) \o Str_Action
                  /\ q.last.calls = << >>
                  /\ q.id = p.id /\ q.color = p.color
                  /\ q.users = p.users /\ q.rendered = p.rendered
             ELSE /\ q.thrown # "Unsupported action called"
                  /\ q.last.calls =
                       << [handler |-> CamelCased(m.action, FALSE) \o Str_Action,
                           command |-> [controller |-> m.controller,
                                        action |-> m.action,
                                        parameters |-> m.parameters]] >>]_vars

\* a browser side that knows its colour and the user 2 has refused the
\* action 'Welcome'
C21_Witness ==
  /\ peers # NoPeers
  /\ peers[1].thrown = "Unsupported action called"
  /\ peers[1].last.calls = << >>
  /\ peers[1].last.unsupported = <<"W","e","l","c","o","m","e">> \o Str_Action
  /\ peers[1].color = goodColors[1]
  /\ 2 \in DOMAIN peers[1].users

(***************************************************************************)
(* C22: after the browser side has handled user-disconnected{id: X} its    *)
(* users map has no entry for X; after user-connected{id: X, color} the    *)
(* entry for X is the new user of that colour; after name-changed{id: X,   *)
(* name} the entry for X, when there is one, has that name.                *)
(***************************************************************************)
C22_UsersMapFollowsNotifications ==
  [][LET q == peers'[1]
         m == q.last.message
     IN  "action" \in DOMAIN m =>
           /\ m.action = Str_user_disconnected =>
                m.parameters.id \notin DOMAIN q.users
           /\ m.action = Str_user_connected =>
                /\ m.parameters.id \in DOMAIN q.users
                /\ q.users[m.parameters.id] =
                     [id |-> m.parameters.id, color |-> m.parameters.color,
                      name |-> Null]
           /\ m.action = Str_name_changed =>
                (m.parameters.id \in DOMAIN peers[1].users =>
                   /\ m.parameters.id \in DOMAIN q.users
                   /\ q.users[m.parameters.id].name = m.parameters.name)]_vars

(***************************************************************************)
(* C23: the stroke-line frames that reached a registered client are, in    *)
(* the order in which they reached it, the lines at the end of the         *)
(* Drawn-Line Log in the order of the log: of two strokes processed while  *)
(* the client was registered, the one that is first in the log reached the *)
(* client first.                                                           *)
(***************************************************************************)
StrokeCoordinates(r) == <<r.x1, r.y1, r.x2, r.y2>>

C23_StrokesReachClientsInLogOrder ==
  \A c \in Registered :
    LET s == peers[c].strokes
        k == Len(s)
        n == Len(DrawnLines)
    IN  /\ k <= n
        /\ \A i \in 1..k :
             /\ StrokeCoordinates(s[i].parameters)
                  = StrokeCoordinates(DrawnLines[n - k + i])
             /\ s[i].parameters.id \in Registered =>
                  DrawnLines[n - k + i].color
                    = ClientGet(state, s[i].parameters.id, "color", Null)

\* two different strokes have reached one client, and only the second of
\* them another client that came in between
C23_Witness ==
  \E c, d \in Registered :
    /\ Len(peers[c].strokes) = 2
    /\ StrokeCoordinates(peers[c].strokes[1].parameters)
         # StrokeCoordinates(peers[c].strokes[2].parameters)
    /\ Len(peers[d].strokes) = 1
    /\ peers[d].strokes[1] = peers[c].strokes[2]

(***************************************************************************)
(* C24: when every frame sent has been handled, the users map of every     *)
(* registered client that has handled its welcome holds an entry for every *)
(* other registered client that has said hello, with the colour the server *)
(* stores for that client - whatever the order of the connects and hellos. *)
(***************************************************************************)
Quiescent == \A c \in DOMAIN peers : peers[c].inbox = << >>

C24_WelcomeSnapshotsAreConsistent ==
  Quiescent =>
    \A c \in Registered :
      ("color" \in DOMAIN state[c] /\ peers[c].color # Null) =>
        \A x \in Registered \ {c} :
          "color" \in DOMAIN state[x] =>
            /\ x \in DOMAIN peers[c].users
            /\ peers[c].users[x].color = state[x]["color"]

\* three clients have said hello and handled every frame: the first knows
\* the two later ones from their user-connected, the last the two earlier
\* ones
C24_Witness ==
  /\ Quiescent
  /\ Registered = {1, 2, 3}
  /\ \A c \in Registered : peers[c].color = goodColors[c]
  /\ \A c \in Registered : DOMAIN peers[c].users = {1, 2, 3}
  /\ \A c, x \in Registered : peers[c].users[x].color = goodColors[x]

(***************************************************************************)
(* C25: whenever a browser side handles a stroke-line frame, it finds the  *)
(* user the frame names in its users map and draws the line once, in the   *)
(* colour the Drawn-Line Log stores for a line of these coordinates (the   *)
(* colour a restore gives the line).                                       *)
(***************************************************************************)
C25_StrokeColourMatchesLog ==
  [][\A c \in DOMAIN peers \cap DOMAIN peers' :
       (peers[c].inbox # << >> /\ peers'[c].inbox = Tail(peers[c].inbox)) =>
         LET m == Head(peers[c].inbox)
             p == peers[c]
             q == peers'[c]
         IN  m.action = Str_stroke_line =>
               /\ m.parameters.id \in DOMAIN p.users
               /\ q.thrown = "none"
               /\ Len(q.rendered) = Len(p.rendered) + 1
               /\ \E i \in 1..Len(DrawnLines) :
                    DrawnLines[i] = q.rendered[Len(q.rendered)]]_vars

(***************************************************************************)
(* C26: the Drawn-Line Log only grows at its end: in every step the log    *)
(* before the step is a prefix of the log after it, and it grows by one    *)
(* line at most and only when a stroke-line is handled; hello, set-name,   *)
(* request-restore, connects, disconnects and refused frames leave it as   *)
(* it is.                                                                  *)
(***************************************************************************)
LogAfter ==
  IF Str_ServerController \in DOMAIN controllers'
    THEN controllers'[Str_ServerController].drawnLines
    ELSE EmptyArray

C26_LogIsAppendOnly ==
  [][/\ Len(LogAfter) >= Len(DrawnLines)
     /\ SubSeq(LogAfter, 1, Len(DrawnLines)) = DrawnLines
     /\ Len(LogAfter) <= Len(DrawnLines) + 1
     /\ LogAfter # DrawnLines =>
          /\ event'.type = "message"
          /\ event'.message \in StrokeLineFrames
          /\ error' = "none"]_vars

\* the log holds two different lines, the author of the first has gone,
\* and the frame handled last was refused
C26_Witness ==
  /\ Len(DrawnLines) = 2
  /\ DrawnLines[1] # DrawnLines[2]
  /\ DrawnLines[1].color = goodColors[1]
  /\ 1 \notin Registered
  /\ event.type = "message"
  /\ error # "none"

(***************************************************************************)
(* C27: the router holds one controller per controller name and never      *)
(* drops or replaces one.  A controller is made by the first dispatch to   *)
(* its name, also when the action is then refused, and by nothing else;    *)
(* every later dispatch to that name, of whichever client, works on the    *)
(* controller as the dispatches before left it, so its log goes on; a      *)
(* dispatch leaves the controllers of the other names alone.               *)
(***************************************************************************)
IsPrefix(s, t) == Len(s) <= Len(t) /\ SubSeq(t, 1, Len(s)) = s

\* the controller name the frame handled in this step resolves to
DispatchedName == CamelCased(event'.message.controller, TRUE) \o Str_Controller

C27_OneControllerPerName ==
  [][/\ \A k \in DOMAIN controllers :
          /\ k \in DOMAIN controllers'
          /\ IsPrefix(controllers[k].drawnLines, controllers'[k].drawnLines)
     /\ Cardinality(DOMAIN controllers' \ DOMAIN controllers) <= 1
     /\ controllers' # controllers =>
          /\ event'.type = "message"
          /\ BothFields(event'.message)
          /\ \A k \in DOMAIN controllers' :
               k # DispatchedName =>
                 k \in DOMAIN controllers /\ controllers'[k] = controllers[k]
     /\ (event'.type = "message" /\ BothFields(event'.message)
           /\ error' # "Controller class not found") =>
          DispatchedName \in DOMAIN controllers']_vars

\* the controller of 'server' holds a line of client 1 followed by a line
\* of client 2, its log was handed to a client, and the controller of
\* 'SERVER' holds another log
C27_Witness ==
  /\ Str_ServerController \in DOMAIN controllers
  /\ Len(DrawnLines) = 2
  /\ DrawnLines[1].color = goodColors[1]
  /\ DrawnLines[2].color = goodColors[2]
  /\ Cardinality(DOMAIN controllers) = 2
  /\ \E k \in DOMAIN controllers :
       k # Str_ServerController /\ Len(controllers[k].drawnLines) = 1
  /\ event.type = "message"
  /\ event.message = Frame(Str_server, Str_request_restore, EmptyArray)
  /\ Len(out) = 1
  /\ out[1].command.parameters.lines = DrawnLines

(***************************************************************************)
(* C28: the name the server stores for a client is the title-cased name of *)
(* the client's last successful set-name, whatever it was before, and      *)
(* nothing else changes it; every welcome lists each other registered      *)
(* client with exactly the name and the colour stored for it at that       *)
(* moment.                                                                 *)
(***************************************************************************)
StoredName(st, c) == IF "name" \in DOMAIN st[c] THEN st[c]["name"] ELSE Null

StoredColor(st, c) == IF "color" \in DOMAIN st[c] THEN st[c]["color"] ELSE Null

SetNameBy(c) ==
  /\ event'.type = "message"
  /\ event'.client = c
  /\ event'.message \in SessionNameFrames
  /\ error' = "none"

C28_LastNameWins ==
  [][/\ \A c \in Registered \cap DOMAIN state' :
          /\ SetNameBy(c) =>
               StoredName(state', c) = TitleCased(event'.message.parameters.name)
          /\ StoredName(state', c) # StoredName(state, c) => SetNameBy(c)
     /\ \A i \in 1..Len(out') :
          out'[i].command.action = Str_welcome =>
            LET others == SelectSeq(clients', LAMBDA x : x # out'[i].to)
                users == out'[i].command.parameters.users
            IN  /\ Len(users) = Len(others)
                /\ \A j \in 1..Len(others) :
                     users[j] = [id |-> others[j],
                                 color |-> StoredColor(state', others[j]),
                                 name |-> StoredName(state', others[j])]]_vars

\* client 2 has before it the two names client 1 gave itself, 'A' and then
\* 'B C', and after them its welcome, which lists client 1 as 'B C' with
\* its colour
C28_Witness ==
  /\ 2 \in DOMAIN peers
  /\ Len(peers[2].inbox) >= 3
  /\ peers[2].inbox[1] =
       ClientDocument(Str_name_changed, [id |-> 1, name |-> <<"A">>])
  /\ peers[2].inbox[2] =
       ClientDocument(Str_name_changed, [id |-> 1, name |-> <<"B", " ", "C">>])
  /\ peers[2].inbox[3] =
       ClientDocument(Str_welcome,
         [id |-> 2, color |-> goodColors[2],
          users |-> << [id |-> 1, color |-> goodColors[1],
                        name |-> <<"B", " ", "C">>] >>])
  /\ StoredName(state, 1) = <<"B", " ", "C">>

(***************************************************************************)
(* C29: for every action token the resolver of the server and the resolver *)
(* of the browser side give the same method name.                          *)
(***************************************************************************)
C29_ResolversAgree ==
  (resolved.serverName # Null /\ resolved.clientName # Null) =>
    resolved.serverName = Utf8(resolved.clientName)

(***************************************************************************)
(* C30: the loop of either resolver ends for every token: every turn       *)
(* removes one '-' and adds none, so a token with n '-' is resolved after  *)
(* n turns; on the server every turn makes the name one byte shorter.      *)
(***************************************************************************)
Dashes(s) == Len(SelectSeq(s, LAMBDA c : c = "-"))

LoopTurns == resolved'.turns # resolved.turns

C30_LoopTerminates ==
  /\ <>(resolved.done)
  /\ [][/\ LoopTurns =>
             /\ Dashes(resolved'.actionName) = Dashes(resolved.actionName) - 1
             /\ resolved.side = "server" =>
                  Len(resolved'.actionName) = Len(resolved.actionName) - 1
             /\ resolved'.turns = resolved.turns + 1
        /\ resolved'.turns <=
             Dashes(IF resolved.side = "server" THEN Utf8(resolved.token)
                                                ELSE resolved.token)
        /\ resolved'.done => Dashes(resolved'.actionName) = 0]_vars

\* the loop of the browser side has ended on the token of two '-' and the
\* ligature ffi after two turns: the name is as long as the token was
C30_Witness ==
  /\ resolved.done
  /\ resolved.side = "client"
  /\ resolved.token = <<"-", "-", "U+FB03">>
  /\ resolved.turns = 2
  /\ resolved.actionName = <<"F", "F", "I">> \o Str_Action

\* the claim as stated: every turn makes the name shorter
C30_EveryTurnShortens ==
  [][LoopTurns =>
       Len(resolved'.actionName) < Len(resolved.actionName)]_vars

(***************************************************************************)
(* C31: the 'graphics.lines' list of every registered client is the        *)
(* Drawn-Line Log without the lines of the other clients, in the order of  *)
(* the log; the lists of the registered clients are together no longer     *)
(* than the log.                                                           *)
(***************************************************************************)
OwnLines(c) == ClientGet(state, c, "graphics.lines", EmptyArray)

AuthoredBy(c) == SelectSeq(DrawnLines, LAMBDA line : line.x1 = c)

RECURSIVE OwnLinesTotal(_)
OwnLinesTotal(cl) ==
  IF cl = << >> THEN 0 ELSE Len(OwnLines(Head(cl))) + OwnLinesTotal(Tail(cl))

C31_OwnLinesAreTheAuthorsPartOfTheLog ==
  /\ \A c \in Registered : OwnLines(c) = AuthoredBy(c)
  /\ OwnLinesTotal(clients) <= Len(DrawnLines)

\* client 1 drew before its hello and after it, client 2 drew in between
C31_Witness ==
  /\ Registered = {1, 2}
  /\ Len(DrawnLines) = 3
  /\ DrawnLines[1].x1 = 1 /\ DrawnLines[1].color = Null
  /\ DrawnLines[2].x1 = 2
  /\ DrawnLines[3].x1 = 1 /\ DrawnLines[3].color = goodColors[1]
  /\ DrawnLines[1].y1 # DrawnLines[3].y1
  /\ Len(OwnLines(1)) = 2
  /\ Len(OwnLines(2)) = 1

(***************************************************************************)
(* C32: every entry of the Drawn-Line Log has a colour that is not null:   *)
(* the colour the hello of its author gave the author, whether the hello   *)
(* came before the stroke or after it; so has every line of a restore.     *)
(***************************************************************************)
RestoredLines ==
  LET replies == SelectSeq(out, LAMBDA d : d.command.action = Str_restore)
  IN  UNION {{replies[i].command.parameters.lines[j] :
                j \in 1..Len(replies[i].command.parameters.lines)} :
             i \in 1..Len(replies)}

C32_LoggedLinesCarryTheAuthorsColour ==
  /\ \A i \in 1..Len(DrawnLines) :
       LET author == DrawnLines[i].x1
       IN  /\ DrawnLines[i].color # Null
           /\ (author \in Registered /\ "color" \in DOMAIN state[author]) =>
                DrawnLines[i].color = state[author]["color"]
  /\ \A line \in RestoredLines : line.color # Null

(***************************************************************************)
(* C33: no two registered clients hold the same entry of the palette, and  *)
(* a client that holds an entry of the palette keeps it: a hello it sends  *)
(* again gives it the same entry, and nothing else changes its colour.     *)
(***************************************************************************)
Palette == {goodColors[i] : i \in 1..Len(goodColors)}

HoldsPaletteEntry(st, c) ==
  "color" \in DOMAIN st[c] /\ st[c]["color"] \in Palette

C33_PaletteEntriesAreNotShared ==
  [][/\ \A c, d \in Registered' :
          (c # d /\ HoldsPaletteEntry(state', c) /\ HoldsPaletteEntry(state', d)) =>
            state'[c]["color"] # state'[d]["color"]
     /\ \A c \in Registered \cap Registered' :
          HoldsPaletteEntry(state, c) =>
            /\ HoldsPaletteEntry(state', c)
            /\ state'[c]["color"] = state[c]["color"]]_vars

\* client 1 has drawn a line in its colour and has said hello again, while
\* four other clients hold entries of the palette and client 6 a random colour
C33_Witness ==
  /\ Handled(Str_hello)
  /\ event.client = 1
  /\ Registered = 1..6
  /\ Len(DrawnLines) = 1 /\ DrawnLines[1].color = goodColors[1]
  /\ state[1]["color"] = goodColors[1]
  /\ \A c \in 2..5 : HoldsPaletteEntry(state, c)
  /\ "color" \in DOMAIN state[6] /\ ~HoldsPaletteEntry(state, 6)

(***************************************************************************)
(* C34: for a registered client that has asked for the restore, the lines  *)
(* of the restore reply that reached it last, followed by the lines of the *)
(* stroke-line frames that reached it since, are the Drawn-Line Log: the   *)
(* reply holds the entries logged before the request was handled and none  *)
(* logged after it, and every later entry has reached the client as a      *)
(* stroke-line, in the order of the log.                                   *)
(***************************************************************************)
C34_RestoreAndLaterStrokesAreTheLog ==
  \A c \in Registered :
    peers[c].sinceRestore # << >> =>
      LET reply == Head(peers[c].sinceRestore)
          lines == reply.parameters.lines
          later == Tail(peers[c].sinceRestore)
      IN  /\ reply.action = Str_restore
          /\ Len(DrawnLines) = Len(lines) + Len(later)
          /\ SubSeq(DrawnLines, 1, Len(lines)) = lines
          /\ \A i \in 1..Len(later) :
               /\ later[i].action = Str_stroke_line
               /\ StrokeCoordinates(later[i].parameters)
                    = StrokeCoordinates(DrawnLines[Len(lines) + i])
               /\ later[i].parameters.id \in Registered =>
                    DrawnLines[Len(lines) + i].color
                      = ClientGet(state, later[i].parameters.id, "color", Null)

\* a client got one line in its restore and the next line, drawn by the
\* other client, as a stroke-line
C34_Witness ==
  \E c \in Registered :
    /\ Len(peers[c].sinceRestore) = 2
    /\ Len(peers[c].sinceRestore[1].parameters.lines) = 1
    /\ peers[c].sinceRestore[2].parameters.id # c
    /\ StrokeCoordinates(peers[c].sinceRestore[2].parameters)
         # StrokeCoordinates(peers[c].sinceRestore[1].parameters.lines[1])

(***************************************************************************)
(* C35: whenever a browser side handles name-changed{id: X},               *)
(* stroke-line{id: X} or user-disconnected{id: X}, its users map has an    *)
(* entry for X at that moment.                                             *)
(***************************************************************************)
NamesAUser(document) ==
  document.action \in {Str_name_changed, Str_stroke_line, Str_user_disconnected}

C35_NotifiedUsersAreKnown ==
  [][\A c \in DOMAIN peers \cap DOMAIN peers' :
       (/\ peers[c].inbox # << >>
        /\ peers'[c].inbox = Tail(peers[c].inbox)
        /\ peers'[c].last.message = Head(peers[c].inbox)
        /\ NamesAUser(Head(peers[c].inbox))) =>
         /\ Head(peers[c].inbox).parameters.id \in DOMAIN peers[c].users
         /\ peers'[c].thrown = "none"]_vars

(***************************************************************************)
(* C36: when every frame sent has been handled, a registered client that   *)
(* has handled its welcome holds, for every other registered client in its *)
(* users map, the name the server stores for that client, null when it     *)
(* stores none - whatever the order of that client's hello and set-name.   *)
(***************************************************************************)
C36_NamesAgreeWithTheServer ==
  Quiescent =>
    \A c \in Registered :
      peers[c].color # Null =>
        \A x \in (Registered \ {c}) \cap DOMAIN peers[c].users :
          peers[c].users[x].name = ClientGet(state, x, "name", Null)

(***************************************************************************)
(* C37: a hello makes two sends to its sender, the welcome first and the   *)
(* user-connected of the sender's own id second; so a browser side whose   *)
(* users map has an entry for its own id has handled its welcome before    *)
(* and knows its id and its colour.                                        *)
(***************************************************************************)
C37_WelcomeComesBeforeOwnUserConnected ==
  [][/\ Handled(Str_hello)' =>
          LET mine == ReceivedBy(event'.client, out')
          IN  /\ Len(mine) = 2
              /\ mine[1].action = Str_welcome
              /\ mine[2].action = Str_user_connected
              /\ mine[2].parameters.id = event'.client
     /\ \A c \in DOMAIN peers' :
          c \in DOMAIN peers'[c].users =>
            /\ peers'[c].color # Null
            /\ peers'[c].id = c
            /\ peers'[c].color = peers'[c].users[c].color]_vars

\* client 1 has handled its welcome and its own user-connected; client 2
\* has handled its welcome, and its own user-connected is the next frame it
\* handles
C37_Witness ==
  /\ Registered = {1, 2}
  /\ peers[1].color = goodColors[1] /\ 1 \in DOMAIN peers[1].users
  /\ peers[2].color = goodColors[2] /\ 2 \notin DOMAIN peers[2].users
  /\ peers[2].inbox # << >>
  /\ Head(peers[2].inbox).action = Str_user_connected
  /\ Head(peers[2].inbox).parameters.id = 2

(***************************************************************************)
(* C38: every frame the server sends has one of the seven actions of       *)
(* namespace 'client' and names a method of the browser side, which        *)
(* handles it with that one method and never throws 'Unsupported action';  *)
(* every frame of the four the browser side sends (hello, set-name,        *)
(* stroke-line, request-restore in namespace 'server') makes the router    *)
(* call one method, and the router raises neither the class-not-found nor  *)
(* the not-callable error.                                                 *)
(***************************************************************************)
ServerEmitted ==
  {Str_welcome, Str_user_connecting, Str_user_connected, Str_name_changed,
   Str_stroke_line, Str_restore, Str_user_disconnected}

ClientEmitted ==
  {Str_hello, Str_set_name, Str_stroke_line, Str_request_restore}

C38_ProtocolIsClosed ==
  /\ \A i \in 1..Len(out) :
       /\ out[i].command.controller = Str_client
       /\ out[i].command.action \in ServerEmitted
       /\ IsFunction(JsActionName(out[i].command.action))
  /\ \A c \in DOMAIN peers :
       /\ peers[c].thrown # "Unsupported action called"
       /\ peers[c].last.unsupported = Null
       /\ \A i \in 1..Len(peers[c].inbox) :
            IsFunction(JsActionName(peers[c].inbox[i].action))
  /\ event.type = "message" =>
       /\ event.message.controller = Str_server
       /\ event.message.action \in ClientEmitted
       /\ error \notin {"Controller class not found",
                        "Controller method is not callable"}
       /\ Len(calls) = 1
       /\ calls[1].controller = Str_ServerController

\* a stroke-line of client 1 has been routed to strokeLineAction, and
\* client 2 has handled the stroke-line frame the server made of it
C38_Witness ==
  /\ event.type = "message"
  /\ event.client = 1
  /\ event.message.action = Str_stroke_line
  /\ calls = << [controller |-> Str_ServerController,
                 method |-> Str_strokeLineAction] >>
  /\ 2 \in DOMAIN peers
  /\ Len(peers[2].last.calls) = 1
  /\ peers[2].last.calls[1].command.action = Str_stroke_line
  /\ peers[2].thrown = "none"
  /\ Len(peers[2].rendered) = 1

(***************************************************************************)
(* C39: whatever tokens a client sends, the router makes instances only    *)
(* under names that end in 'Controller' and calls only the method its      *)
(* resolvers name: a method whose name ends in 'Action', of a class whose  *)
(* name ends in 'Controller'; the helper randomColor is never called, and  *)
(* a frame that calls no method sends nothing and changes no client.       *)
(***************************************************************************)
EndsWith(s, suffix) ==
  /\ Len(s) >= Len(suffix)
  /\ SubSeq(s, Len(s) - Len(suffix) + 1, Len(s)) = suffix

Str_randomColor == <<"r","a","n","d","o","m","C","o","l","o","r">>

C39_OnlyActionsOfControllersAreCalled ==
  /\ \A k \in DOMAIN controllers : EndsWith(k, Str_Controller)
  /\ \A i \in 1..Len(calls) :
       /\ calls[i].controller = getControllerName(event.message.controller)
       /\ EndsWith(calls[i].controller, Str_Controller)
       /\ StrToLower(calls[i].method) = StrToLower(getActionName(event.message.action))
       /\ EndsWith(calls[i].method, Str_Action)
       /\ StrToLower(calls[i].method) # StrToLower(Str_randomColor)
  /\ (event.type = "message" /\ calls = << >>) =>
       /\ out = << >>
       /\ error \in {"Controller class not found",
                     "Controller method is not callable"}
       /\ \A c \in Registered : state[c] = EmptyArray \/ DOMAIN state[c] = {"color"}

\* 'random-color' was sent to a ServerController that a hello had made: no
\* method was called
C39_Witness ==
  /\ event.type = "message"
  /\ event.message.controller = Str_server
  /\ event.message.action = <<"r","a","n","d","o","m","-","c","o","l","o","r">>
  /\ Str_ServerController \in DOMAIN controllers
  /\ \E c \in Registered : "color" \in DOMAIN state[c]
  /\ calls = << >>
  /\ error = "Controller method is not callable"

(***************************************************************************)
(* C40: a call of SocketClient.send by the page adds a frame to the ones   *)
(* sent exactly when the connection is Open; while it is Connecting,       *)
(* Closed or Errored the call throws 'Unable to send command, socket is    *)
(* not open' and adds nothing.                                             *)
(***************************************************************************)
C40_SendOnlyWhileOpen ==
  [][ PageCalls =>
        IF agent.socket = "OPEN"
          THEN /\ Len(agent'.sent) = Len(agent.sent) + 1
               /\ agent'.thrown = "none"
          ELSE /\ agent'.sent = agent.sent
               /\ agent'.thrown = "Unable to send command, socket is not open"
    ]_vars

=============================================================================
